---- MODULE Spec2Model ----
(***************************************************************************)
(* Model of the Instagram story metrics fetcher:                           *)
(*   src/src/instagram_story_metrics.py  (fetcher, single-account run)     *)
(*   src/src/main.py                     (batch entry point)               *)
(*                                                                         *)
(* Specifications:                                                         *)
(*   SpecFetch    fetch_stories: one step per story-listing request        *)
(*   SpecMetrics  process_stories / fetch_story_metrics: one step per      *)
(*                metric request, one per row                              *)
(*   Spec         main() and fetch_instagram_story_metrics: construction   *)
(*                of the fetcher and run()                                 *)
(*   SpecScript   test_single_account of run_local.py                      *)
(*   SpecBatch    fetch_instagram_story_metrics_batch: one step per        *)
(*                request or upload of each worker                         *)
(*   SpecBatchStuck  the batch with workers that may hang, under fairness  *)
(*   SpecSecrets  SecretsManager objects of one process and their gets     *)
(*   SpecWindow   get_eligible_story_date_range                            *)
(*   SpecUpload   local-file runs up to upload_to_gcs, over many days       *)
(*   SpecAll      fetch_all_story_accounts                                  *)
(***************************************************************************)
EXTENDS Integers, Sequences, FiniteSets, TLC

VARIABLES
    \* ---- fetch_stories ----
    upstream,      \* the story listing served by the Graph API: [pages, tail]
    since_date,    \* argument since_date (a day number)
    until_date,    \* argument until_date (a day number)
    endpoint,      \* page to request next; 0 is None (no next page URL)
    page_count,    \* local page_count
    stories,       \* local list stories
    fs,            \* position in fetch_stories: "idle" | "loop" | "returned" | "raised"
    fetch_ret,     \* what the call handed to its caller: [kind, stories]
    requests,      \* story-listing requests issued so far (page indices, in order)
    \* ---- process_stories / fetch_story_metrics ----
    insights,      \* the insights the Graph API serves: story id -> [nav, agg] responses
    todo,          \* argument stories of process_stories
    si,            \* index in todo of the story being processed
    mpc,           \* position: "idle" | "nav" | "agg" | "row" | "frame" | "done" | "raised"
    metrics,       \* dict metrics of the fetch_story_metrics call in progress
    processed_data,\* local list processed_data
    df,            \* the DataFrame process_stories returned (its rows)
    mlog,          \* metric requests issued so far: [story, metric]
    \* ---- main() / run() ----
    entry,         \* the function called: "main" | "http" | "script"
    entry_ret,     \* what the function called handed to its caller
    today,         \* datetime.now().date() on the host of the run (a day number)
    account,       \* argument account_name of main(); "" is None
    local_file,    \* argument local_file: [given, valid, stories]
    now,           \* the Pacific wall clock of the run, in hours
    pc,            \* position in main() / run()
    account_name,  \* self.account_name
    secret_calls,  \* calls to the backing secret service: [secret, account]
    scope_calls,   \* debug_token requests issued
    writes,        \* object-store uploads attempted: [key, ok]
    failed_step,   \* the pipeline step that failed, "" when none has
    main_ret,      \* what main() handed to its caller
    \* ---- fetch_instagram_story_metrics_batch ----
    bkeys,         \* keys of the JSON object request.get_json returns; {} for None or {}
    breq,          \* the "accounts" list of the request
    bpc,           \* position in the batch entry point
    valid_accounts,\* local valid_accounts
    futures,       \* the futures of the pool: [state, outcome, run, at] per valid account
    results,       \* local results
    response,      \* the response returned
    bwrites,       \* object-store uploads of the pool's workers: [worker, key, ok]
    world,         \* what the i-th main() call of the batch meets: [fault, at, listing]
    \* ---- SecretsManager ----
    managers,      \* the SecretsManager objects built in the process: [cache, lru]
    backend_calls, \* access_secret_version calls made: [name, served]
    gets,          \* get_secret calls ended so far: [manager, name, after, kind, value]
    pending        \* get_secret calls under way: [manager, name, after, call, stage, value]

fetchVars == <<upstream, since_date, until_date, endpoint, page_count,
               stories, fs, fetch_ret, requests>>

metricVars == <<insights, todo, si, mpc, metrics, processed_data, df, mlog>>

runVars == <<entry, entry_ret, today, account, local_file, now, pc, account_name,
             secret_calls, scope_calls, writes, failed_step, main_ret>>

batchVars == <<bkeys, breq, bpc, valid_accounts, futures, results, response, bwrites,
               world>>

secretVars == <<managers, backend_calls, gets, pending>>

vars == <<fetchVars, metricVars, runVars, batchVars, secretVars>>

----------------------------------------------------------------------------
(* Bounds of the model *)

\* distinct pages the upstream listing is made of
MaxPages == 2
\* stories on the distinct pages of one listing, all pages together
MaxStories == 3
\* largest count a metric response carries
MaxCount == 2
\* metric entries in one aggregate-counters response
MaxAggEntries == 2
\* stories handed to one process_stories call
MaxProcessed == 2
\* accounts named by one batch request
MaxAccounts == 2
\* SecretsManager objects built in one process
MaxManagers == 2
\* get_secret calls made in one process
MaxGets == 3
\* days the clock readings of get_eligible_story_date_range range over
MaxDays == 6
\* consecutive days, from 1970-01-01, that local-file runs are made on
MaxUploadDays == 60

----------------------------------------------------------------------------
(* Dates.  A timestamp is an instant with its UTC offset, in hours:        *)
(* [utc |-> hours since the epoch, off |-> offset of the timestamp].       *)

\* datetime.date() of an aware datetime: the calendar day in its own offset
DateOf(ts) == (ts.utc + ts.off) \div 24

\* timestamps the upstream stamps stories with ("...+0000", as the Graph API does)
StoryTimes ==
    { [utc |-> 20, off |-> 0],     \* day 0, 20:00
      [utc |-> 27, off |-> 0],     \* day 1, 03:00
      [utc |-> 68, off |-> 0],     \* day 2, 20:00
      [utc |-> 75, off |-> 0] }    \* day 3, 03:00

\* (since_date, until_date) pairs fetch_stories is called with
\* run() always calls with since_date <= until_date (lines 525-532)
Windows == { <<1, 2>>, <<2, 2>> }

----------------------------------------------------------------------------
(* fetch_stories *)

max_pages == 10

\* the for loop over one page's stories: acc is `stories`; stop is the early return
RECURSIVE ScanFrom(_, _, _, _, _)
ScanFrom(page, i, acc, since, until) ==
    IF i > Len(page) THEN [stories |-> acc, stop |-> FALSE]
    ELSE LET story_date == DateOf(page[i].timestamp) IN
         IF since <= story_date /\ story_date <= until
           THEN ScanFrom(page, i + 1, Append(acc, page[i]), since, until)
         ELSE IF story_date > until
           THEN ScanFrom(page, i + 1, acc, since, until)
         ELSE IF story_date < since
           THEN [stories |-> acc, stop |-> TRUE]
         ELSE ScanFrom(page, i + 1, acc, since, until)

\* variant: a story older than the window is skipped instead of ending the call
RECURSIVE ScanNoStop(_, _, _, _, _)
ScanNoStop(page, i, acc, since, until) ==
    IF i > Len(page) THEN [stories |-> acc, stop |-> FALSE]
    ELSE LET story_date == DateOf(page[i].timestamp) IN
         IF since <= story_date /\ story_date <= until
           THEN ScanNoStop(page, i + 1, Append(acc, page[i]), since, until)
           ELSE ScanNoStop(page, i + 1, acc, since, until)

ScanPageNoStop(page, acc, since, until) == ScanNoStop(page, 1, acc, since, until)

\* variant: a story newer than the window ends the call as an older one does
RECURSIVE ScanStopLate(_, _, _, _, _)
ScanStopLate(page, i, acc, since, until) ==
    IF i > Len(page) THEN [stories |-> acc, stop |-> FALSE]
    ELSE LET story_date == DateOf(page[i].timestamp) IN
         IF since <= story_date /\ story_date <= until
           THEN ScanStopLate(page, i + 1, Append(acc, page[i]), since, until)
           ELSE [stories |-> acc, stop |-> TRUE]

ScanPageStopLate(page, acc, since, until) == ScanStopLate(page, 1, acc, since, until)

ScanPage(page, acc, since, until) == ScanFrom(page, 1, acc, since, until)

\* data.get("paging", {}).get("next"): the page after page i, 0 when there is none
NextOf(up, i) == IF i < Len(up.pages) THEN i + 1 ELSE up.tail

FetchFailureKeepsPartial(acc) == [kind |-> "value", stories |-> acc]

\* except RequestException: raise InstagramAPIError; nothing is returned
FetchFailure(acc) == [kind |-> "error", stories |-> <<>>]

\* return stories
FetchReturn(acc) == [kind |-> "value", stories |-> acc]

NoReturn == [kind |-> "none", stories |-> <<>>]

LoopConditionOffByOne == endpoint # 0 /\ page_count <= max_pages

\* while endpoint and page_count < max_pages
LoopCondition == endpoint # 0 /\ page_count < max_pages

\* one iteration of the while loop whose request fails at transport level
FetchPageFail ==
    /\ fs = "loop"
    /\ LoopCondition
    /\ requests' = Append(requests, endpoint)
    /\ fs' = "raised"
    /\ fetch_ret' = FetchFailure(stories)
    /\ UNCHANGED <<upstream, since_date, until_date, endpoint, page_count, stories>>
    /\ UNCHANGED <<metricVars, runVars, batchVars, secretVars>>

\* one iteration of the while loop whose request succeeds
FetchPageOk ==
    /\ fs = "loop"
    /\ LoopCondition
    /\ requests' = Append(requests, endpoint)
    /\ LET r == ScanPage(upstream.pages[endpoint], stories, since_date, until_date) IN
         /\ stories' = r.stories
         /\ IF r.stop
              THEN /\ fs' = "returned"
                   /\ fetch_ret' = FetchReturn(r.stories)
                   /\ UNCHANGED <<endpoint, page_count>>
              ELSE /\ endpoint' = NextOf(upstream, endpoint)
                   /\ page_count' = page_count + 1
                   /\ UNCHANGED <<fs, fetch_ret>>
    /\ UNCHANGED <<upstream, since_date, until_date>>
    /\ UNCHANGED <<metricVars, runVars, batchVars, secretVars>>

\* the loop condition is false: return stories
FetchExit ==
    /\ fs = "loop"
    /\ ~LoopCondition
    /\ fs' = "returned"
    /\ fetch_ret' = FetchReturn(stories)
    /\ UNCHANGED <<upstream, since_date, until_date, endpoint, page_count,
                   stories, requests>>
    /\ UNCHANGED <<metricVars, runVars, batchVars, secretVars>>

----------------------------------------------------------------------------
(* Python dicts: functions on a finite set of string keys *)

EmptyDict == [k \in {} |-> 0]

\* d.get(k, default)
Get(d, k, default) == IF k \in DOMAIN d THEN d[k] ELSE default

\* d[k] = v
Put(d, k, v) == [x \in (DOMAIN d) \cup {k} |-> IF x = k THEN v ELSE d[x]]

\* The Python values of what a response holds under "value".  A count is a
\* natural number and stands for itself; None (a JSON null) and a str (a JSON
\* string) are written as the two codes below.  A number that is no integer
\* takes the branches an integer takes and is left out.
None == 0 - 1
Text == 0 - 2

\* what an operator gives on operands it is not defined for: it raises TypeError
TypeError == 0 - 3

\* isinstance(v, int)
IsInt(v) == v >= 0

\* a + b: ints are added, strs concatenated; any other pair raises
Plus(a, b) ==
    IF IsInt(a) /\ IsInt(b) THEN a + b
    ELSE IF a = Text /\ b = Text THEN Text
    ELSE TypeError

----------------------------------------------------------------------------
(* fetch_story_metrics: the navigation request (first try block)           *)
(*                                                                         *)
(* A response is [ok, data]: ok = FALSE is a request that raised           *)
(* (session.get or raise_for_status); data is the list under "data", each  *)
(* metric [name, values], each value entry [kind, n, m]:                   *)
(*   kind "scalar": "value" is n, no mapping: a number, None or a str       *)
(*   kind "map":    "value" is the mapping m from action type to count     *)
(*                  (the empty mapping is also what an absent "value"      *)
(*                  reads as, value.get("value", {}))                      *)
(*   kind "bad":    the entry is no dict (value.get raises), or "value" is *)
(*                  a mapping holding a count that cannot be added to the  *)
(*                  total (navigation_total += count raises TypeError)     *)

ActionTypes == {"TAP_FORWARD", "TAP_BACK", "TAP_EXIT", "SWIPE_FORWARD", "OTHER"}

NavStart == [navigation_total |-> 0, taps_forward |-> 0, taps_back |-> 0,
             taps_exit |-> 0, swipe_forward |-> 0, exc |-> "none"]

\* variant: only the four recognised action types are added to the total
NavItemRecognisedOnly(st, action_type, count) ==
    IF action_type = "TAP_FORWARD"
      THEN [st EXCEPT !.taps_forward = count, !.navigation_total = @ + count]
    ELSE IF action_type = "TAP_BACK"
      THEN [st EXCEPT !.taps_back = count, !.navigation_total = @ + count]
    ELSE IF action_type = "TAP_EXIT"
      THEN [st EXCEPT !.taps_exit = count, !.navigation_total = @ + count]
    ELSE IF action_type = "SWIPE_FORWARD"
      THEN [st EXCEPT !.swipe_forward = count, !.navigation_total = @ + count]
    ELSE st

\* the body of `for action_type, count in total_value.items()`: the count is
\* kept under its name, then added to the total, which raises when the two
\* cannot be added
NavItem(st, action_type, count) ==
    LET st1 == IF action_type = "TAP_FORWARD" THEN [st EXCEPT !.taps_forward = count]
               ELSE IF action_type = "TAP_BACK" THEN [st EXCEPT !.taps_back = count]
               ELSE IF action_type = "TAP_EXIT" THEN [st EXCEPT !.taps_exit = count]
               ELSE IF action_type = "SWIPE_FORWARD" THEN [st EXCEPT !.swipe_forward = count]
               ELSE st
        total == Plus(st.navigation_total, count)
    IN IF total = TypeError THEN [st1 EXCEPT !.exc = "parse"]
       ELSE [st1 EXCEPT !.navigation_total = total]

\* for action_type, count in total_value.items()
RECURSIVE NavItems(_, _, _)
NavItems(st, m, keys) ==
    IF keys = {} \/ st.exc # "none" THEN st
    ELSE LET k == CHOOSE x \in keys : TRUE
         IN NavItems(NavItem(st, k, m[k]), m, keys \ {k})

\* the body of `for value in metric.get("values", [])`
NavValue(st, value) ==
    IF value.kind = "map" THEN NavItems(st, value.m, DOMAIN value.m)
    ELSE IF value.kind = "bad" THEN [st EXCEPT !.exc = "parse"]
    ELSE [st EXCEPT !.navigation_total = value.n]

RECURSIVE NavValues(_, _, _)
NavValues(st, values, i) ==
    IF i > Len(values) \/ st.exc # "none" THEN st
    ELSE NavValues(NavValue(st, values[i]), values, i + 1)

\* for metric in data.get("data", []): if metric.get("name") == "navigation"
RECURSIVE NavData(_, _, _)
NavData(st, data, i) ==
    IF i > Len(data) \/ st.exc # "none" THEN st
    ELSE NavData(IF data[i].name = "navigation"
                   THEN NavValues(st, data[i].values, 1) ELSE st,
                 data, i + 1)

\* the try block: the request, then the parse; exc names what was raised
TryNavigation(resp) ==
    IF ~resp.ok THEN [NavStart EXCEPT !.exc = "request"]
    ELSE NavData(NavStart, resp.data, 1)

\* metrics["navigation_total"] = navigation_total ... (lines 264-268)
NavFields(st) ==
    [k \in {"navigation_total", "taps_forward", "taps_back", "taps_exit", "swipe_forward"} |->
        IF k = "navigation_total" THEN st.navigation_total
        ELSE IF k = "taps_forward" THEN st.taps_forward
        ELSE IF k = "taps_back" THEN st.taps_back
        ELSE IF k = "taps_exit" THEN st.taps_exit
        ELSE st.swipe_forward]

\* metrics.update({... 0}) of the except clause
NavDefaults ==
    [k \in {"navigation_total", "taps_forward", "taps_back", "taps_exit", "swipe_forward"} |-> 0]

\* except Exception (line 270)
NavCatches(exc) == exc \in {"request", "parse"}

----------------------------------------------------------------------------
(* fetch_story_metrics: the aggregate-counters request (second try block)  *)
(*                                                                         *)
(* A response is [ok, data]; each metric of data is [name, shape, n]:      *)
(*   name  "" when the metric carries no name                              *)
(*   shape "value":   values[0]["value"] is n: a number, None or a str     *)
(*         "novalue": "values" is absent, or values[0] has no "value"      *)
(*         "empty":   "values" is the empty list (values[0] raises)        *)

AggNames == {"reach", "replies", "shares", "total_interactions", "views",
             "profile_visits", "follows"}

\* metric.get("values", [{}])[0].get("value", 0): the value as it is, None and
\* str included; 0 only when there is no "value"
MetricValue(metric) == IF metric.shape = "value" THEN metric.n ELSE 0

\* for metric in data.get("data", []): st is [metrics, exc]
RECURSIVE AggData(_, _, _)
AggData(st, data, i) ==
    IF i > Len(data) \/ st.exc # "none" THEN st
    ELSE AggData(
           IF data[i].shape = "empty" THEN [st EXCEPT !.exc = "parse"]
           ELSE IF data[i].name # ""
             THEN [st EXCEPT !.metrics = Put(@, data[i].name, MetricValue(data[i]))]
           ELSE st,
           data, i + 1)

\* the try block: the request, then the parse
TryAggregate(m, resp) ==
    IF ~resp.ok THEN [metrics |-> m, exc |-> "request"]
    ELSE AggData([metrics |-> m, exc |-> "none"], resp.data, 1)

\* for key in [...]: if key not in metrics: metrics[key] = 0
AggDefaults(m) ==
    [k \in (DOMAIN m) \cup AggNames |-> IF k \in DOMAIN m THEN m[k] ELSE 0]

\* except Exception (line 298)
AggCatches(exc) == exc \in {"request", "parse"}

----------------------------------------------------------------------------
(* process_stories: the row of one story *)

\* the calendar date of day number d, day 0 being 1970-01-01 (proleptic
\* Gregorian calendar, as datetime.date): [year, month, day]
CivilDate(d) ==
    LET z == d + 719468
        era == z \div 146097
        doe == z - era * 146097
        yoe == (doe - doe \div 1460 + doe \div 36524 - doe \div 146096) \div 365
        doy == doe - (365 * yoe + yoe \div 4 - yoe \div 100)
        mp == (5 * doy + 2) \div 153
        mo == IF mp < 10 THEN mp + 3 ELSE mp - 9
    IN [year |-> yoe + era * 400 + (IF mo <= 2 THEN 1 ELSE 0),
        month |-> mo,
        day |-> doy - (153 * mp + 2) \div 5 + 1]

\* the day number of the calendar date y-m-d
DaysFromCivil(y, m, d) ==
    LET yy == IF m <= 2 THEN y - 1 ELSE y
        era == yy \div 400
        yoe == yy - era * 400
        mp == (m + 9) % 12
        doy == (153 * mp + 2) \div 5 + d - 1
        doe == yoe * 365 + yoe \div 4 - yoe \div 100 + doy
    IN era * 146097 + doe - 719468

\* the first Sunday on or after y-m-d; the day of the week of day number f is
\* (f + 4) % 7, 0 for Sunday (1970-01-01 was a Thursday)
SundayFrom(y, m, d) ==
    LET f == DaysFromCivil(y, m, d) IN f + ((7 - ((f + 4) % 7)) % 7)

\* the last Sunday of month m of year y
LastSunday(y, m) ==
    LET l == (IF m = 12 THEN DaysFromCivil(y + 1, 1, 1) ELSE DaysFromCivil(y, m + 1, 1)) - 1
    IN l - ((l + 4) % 7)

\* the day daylight time starts on in US/Pacific (tz database, years from 1950)
DstStartDay(y) ==
    IF y >= 2007 THEN SundayFrom(y, 3, 8)
    ELSE IF y >= 1987 THEN SundayFrom(y, 4, 1)
    ELSE IF y = 1975 THEN DaysFromCivil(1975, 2, 23)
    ELSE IF y = 1974 THEN DaysFromCivil(1974, 1, 6)
    ELSE LastSunday(y, 4)

\* the day daylight time ends on
DstEndDay(y) ==
    IF y >= 2007 THEN SundayFrom(y, 11, 1)
    ELSE IF y >= 1962 THEN LastSunday(y, 10)
    ELSE LastSunday(y, 9)

\* the zone offset of US/Pacific (pytz, line 34) at UTC hour utc: daylight
\* time starts at 02:00 standard time (01:00 up to 1966) and ends at 02:00
\* daylight time
PacificOffset(utc) ==
    LET y == CivilDate((utc - 8) \div 24).year
        start == 24 * DstStartDay(y) + (IF y >= 1967 THEN 2 ELSE 1) + 8
        end == 24 * DstEndDay(y) + 2 + 7
    IN IF start <= utc /\ utc < end THEN 0 - 7 ELSE 0 - 8

\* story_timestamp.astimezone(PST_TIMEZONE), as wall-clock hours
PacificTime(ts) == ts.utc + PacificOffset(ts.utc)

\* pst_timestamp.replace(hour=0, minute=0, second=0, microsecond=0), as a day number
StoryDateOf(ts) == PacificTime(ts) \div 24

\* Binary numbers of any size: sequences of bits, the least significant first.
\* A double is [m, e]: the number m * 2^e, m of at most 53 bits.
RECURSIVE BitsOf(_)
BitsOf(n) == IF n = 0 THEN <<>> ELSE <<n % 2>> \o BitsOf(n \div 2)

RECURSIVE ValueOf(_)
ValueOf(b) == IF Len(b) = 0 THEN 0 ELSE b[1] + 2 * ValueOf(Tail(b))

\* the highest position at or below i that holds a 1; 0 when none does
RECURSIVE TopBit(_, _)
TopBit(b, i) ==
    IF i = 0 THEN 0
    ELSE IF i >= 8 /\ \A k \in (i - 7)..i : b[k] = 0 THEN TopBit(b, i - 8)
    ELSE IF b[i] = 1 THEN i ELSE TopBit(b, i - 1)

\* d * k + carry, in hexadecimal digits, the least significant first
RECURSIVE TimesDigits(_, _, _)
TimesDigits(d, k, carry) ==
    IF Len(d) = 0
      THEN IF carry = 0 THEN <<>> ELSE <<carry % 16>> \o TimesDigits(d, k, carry \div 16)
      ELSE <<(Head(d) * k + carry) % 16>>
               \o TimesDigits(Tail(d), k, (Head(d) * k + carry) \div 16)

\* b * k + c, without leading zeros: computed on the hexadecimal digits of b
TimesPlus(b, k, c) ==
    LET bit(i) == IF i <= Len(b) THEN b[i] ELSE 0
        digits == [i \in 1..((Len(b) + 3) \div 4) |->
                     bit(4 * i - 3) + 2 * bit(4 * i - 2) + 4 * bit(4 * i - 1) + 8 * bit(4 * i)]
        d == TimesDigits(digits, k, c)
        bits == [i \in 1..(4 * Len(d)) |-> (d[(i - 1) \div 4 + 1] \div (2 ^ ((i - 1) % 4))) % 2]
    IN SubSeq(bits, 1, TopBit(bits, Len(bits)))

\* the last f bits of b are cut off, the rest rounded to the nearest, ties to
\* even; sticky says that a non-zero part below b was cut off before
RoundOff(b, f, sticky) ==
    IF f <= 0 THEN [i \in 1..(0 - f) |-> 0] \o b
    ELSE LET kept == IF f >= Len(b) THEN <<>> ELSE SubSeq(b, f + 1, Len(b))
             guard == IF f <= Len(b) THEN b[f] ELSE 0
             rest == sticky \/ \E i \in 1..(f - 1) : i <= Len(b) /\ b[i] = 1
             odd == Len(kept) > 0 /\ kept[1] = 1
         IN IF guard = 1 /\ (rest \/ odd) THEN TimesPlus(kept, 1, 1) ELSE kept

\* the double nearest to b * 2^e (round to nearest, ties to even)
ToDouble(b, e, sticky) ==
    LET t == SubSeq(b, 1, TopBit(b, Len(b)))
        f == IF Len(t) > 53 THEN Len(t) - 53 ELSE 0
        r == RoundOff(t, f, sticky)
    IN IF Len(r) > 53 THEN [m |-> Tail(r), e |-> e + f + 1] ELSE [m |-> r, e |-> e + f]

\* long division of r / v (r < v), four bits at a time: the remainder after k
\* hexadecimal digits of the quotient
RECURSIVE DivRem(_, _, _)
DivRem(r, v, k) == IF k = 0 THEN r ELSE DivRem((16 * r) % v, v, k - 1)

\* the first k hexadecimal digits of r / v below the point, as bits
RECURSIVE DivBits(_, _, _)
DivBits(r, v, k) ==
    IF k = 0 THEN <<>>
    ELSE LET d == (16 * r) \div v
         IN DivBits((16 * r) % v, v, k - 1) \o << d % 2, (d \div 2) % 2, (d \div 4) % 2, d \div 8 >>

\* the double n / v of two ints, v > 0.  The quotient is computed to 23
\* hexadecimal digits below the point: enough for 53 significant bits and a
\* rounding bit of any quotient of two counts
FloatDiv(n, v) ==
    ToDouble(DivBits(n % v, v, 23) \o BitsOf(n \div v), 0 - 4 * 23, DivRem(n % v, v, 23) # 0)

\* round((numerator / views) * 100, 2), in hundredths of a percent: the
\* quotient and the product are doubles, and round(x, 2) is the exact value of
\* the double x rounded to the nearest hundredth, ties to even
PyRound2Pct(numerator, views) ==
    LET q == FloatDiv(numerator, views)
        x == ToDouble(TimesPlus(q.m, 100, 0), q.e, FALSE)
    IN ValueOf(RoundOff(TimesPlus(x.m, 100, 0), 0 - x.e, FALSE))

Null == [null |-> TRUE, x |-> 0]
Rate(numerator, views) == [null |-> FALSE, x |-> PyRound2Pct(numerator, views)]

\* variant: the forward rate counts taps only
ForwardNumeratorTapsOnly(row) == row.TapsForward

\* row_data["Taps Forward"] + row_data["Swipe Forward"] (line 354)
ForwardNumerator(row) == Plus(row.TapsForward, row.SwipeForward)

\* row_data = {...} (lines 320-343)
RowCounters(story, m) ==
    [story_id |-> story.id,
     StoryDate |-> StoryDateOf(story.timestamp),
     timestamp |-> PacificTime(story.timestamp),
     Views |-> Get(m, "views", 0),
     Reach |-> Get(m, "reach", 0),
     Replies |-> Get(m, "replies", 0),
     Shares |-> Get(m, "shares", 0),
     TotalInteractions |-> Get(m, "total_interactions", 0),
     ProfileVisits |-> Get(m, "profile_visits", 0),
     Follows |-> Get(m, "follows", 0),
     NavigationTotal |-> Get(m, "navigation_total", 0),
     TapsForward |-> Get(m, "taps_forward", 0),
     TapsBack |-> Get(m, "taps_back", 0),
     TapsExit |-> Get(m, "taps_exit", 0),
     SwipeForward |-> Get(m, "swipe_forward", 0)]

\* lines 345-358 are in no try block: row_data["Views"] > 0 raises TypeError
\* when Views is None or a str, and so does a division of a numerator that is
\* no number
RowRaises(row) ==
    \/ ~IsInt(row.Views)
    \/ /\ row.Views > 0
       /\ \E n \in {row.TapsExit, row.Replies, ForwardNumerator(row), row.TapsBack} :
             ~IsInt(n)

\* the engagement rates (lines 345-363) of a row whose rates can be computed
RowRates(row) ==
    IF row.Views > 0
      THEN [ExitRate |-> Rate(row.TapsExit, row.Views),
            ReplyRate |-> Rate(row.Replies, row.Views),
            ForwardRate |-> Rate(ForwardNumerator(row), row.Views),
            BackRate |-> Rate(row.TapsBack, row.Views)]
      ELSE [ExitRate |-> Null, ReplyRate |-> Null, ForwardRate |-> Null, BackRate |-> Null]

BuildRow(story, m) ==
    LET c == RowCounters(story, m)
        r == RowRates(c)
    IN [counters |-> c, rates |-> r]

----------------------------------------------------------------------------
(* The schema of the frame process_stories returns: column name and dtype,  *)
(* in column order                                                          *)

Col(name, dtype) == [name |-> name, dtype |-> dtype]

CounterColumns == << "Views", "Reach", "Replies", "Shares", "Total Interactions",
                     "Profile Visits", "Follows", "Navigation Total", "Taps Forward",
                     "Taps Back", "Taps Exit", "Swipe Forward" >>

\* the schema dict of _create_empty_dataframe (lines 398-422)
EmptySchema ==
    << Col("story_id", "Utf8"), Col("Story Date", "Datetime(ns)"),
       Col("timestamp", "Datetime(ns)"), Col("Media Type", "Utf8"),
       Col("permalink", "Utf8"), Col("media_url", "Utf8") >>
    \o [i \in 1..Len(CounterColumns) |-> Col(CounterColumns[i], "Int64")]
    \o << Col("Exit Rate", "Float64"), Col("Reply Rate", "Float64"),
          Col("Forward Rate", "Float64"), Col("Back Rate", "Float64"),
          Col("metric_date", "Datetime(ns)") >>

\* the fields of a row's counters, in the order of CounterColumns
CounterFields == << "Views", "Reach", "Replies", "Shares", "TotalInteractions",
                    "ProfileVisits", "Follows", "NavigationTotal", "TapsForward",
                    "TapsBack", "TapsExit", "SwipeForward" >>

\* the dtype pl.DataFrame(processed_data) infers for a counter column: ints,
\* with or without None, give Int64; a column holding only None gives Null;
\* strs, with or without None, give Utf8; "mixed" is a column of ints and strs
CounterDtype(rows, f) ==
    LET vs == { rows[i].counters[f] : i \in 1..Len(rows) }
    IN IF vs = {None} THEN "Null"
       ELSE IF \A v \in vs : IsInt(v) \/ v = None THEN "Int64"
       ELSE IF \A v \in vs : v = Text \/ v = None THEN "Utf8"
       ELSE "mixed"

\* some counter column holds ints and strs
MixedColumn(rows) ==
    \E i \in 1..Len(CounterFields) : CounterDtype(rows, CounterFields[i]) = "mixed"

\* the dtype pl.DataFrame(processed_data) infers for a rate column: floats, with
\* or without nulls, give Float64; a column holding only None gives Null
RateDtype(rows, rate) ==
    IF \A i \in 1..Len(rows) : rows[i].rates[rate].null THEN "Null" ELSE "Float64"

\* pl.DataFrame(processed_data), with_columns(metric_date) and the casts of the
\* datetime columns to ns without time zone (lines 368-387): the columns are the
\* keys of row_data in insertion order, then metric_date.  A frame built of a
\* column of ints and strs holds it as strs
InferredSchema(rows) ==
    << Col("story_id", "Utf8"), Col("Story Date", "Datetime(ns)"),
       Col("timestamp", "Datetime(ns)"), Col("Media Type", "Utf8"),
       Col("permalink", "Utf8"), Col("media_url", "Utf8") >>
    \o [i \in 1..Len(CounterColumns) |->
          Col(CounterColumns[i],
              IF CounterDtype(rows, CounterFields[i]) = "mixed" THEN "Utf8"
              ELSE CounterDtype(rows, CounterFields[i]))]
    \o << Col("Exit Rate", RateDtype(rows, "ExitRate")),
          Col("Reply Rate", RateDtype(rows, "ReplyRate")),
          Col("Forward Rate", RateDtype(rows, "ForwardRate")),
          Col("Back Rate", RateDtype(rows, "BackRate")),
          Col("metric_date", "Datetime(ns)") >>

\* if processed_data: ... else: return self._create_empty_dataframe()
FrameSchema(rows) == IF Len(rows) = 0 THEN EmptySchema ELSE InferredSchema(rows)

----------------------------------------------------------------------------
(* process_stories, one step per request and per row *)

\* response = self.session.get(...insights, metric=navigation) and its try block
NavStep ==
    /\ mpc = "nav"
    /\ LET story == todo[si]
           out == TryNavigation(insights[story.id].nav)
       IN /\ mlog' = Append(mlog, [story |-> story.id, metric |-> "navigation"])
          /\ IF out.exc = "none"
               THEN metrics' = NavFields(out) /\ mpc' = "agg"
             ELSE IF NavCatches(out.exc)
               THEN metrics' = NavDefaults /\ mpc' = "agg"
             ELSE metrics' = EmptyDict /\ mpc' = "raised"
    /\ UNCHANGED <<insights, todo, si, processed_data, df>>
    /\ UNCHANGED <<fetchVars, runVars, batchVars, secretVars>>

\* the second request and its try block; return metrics
AggStep ==
    /\ mpc = "agg"
    /\ LET story == todo[si]
           out == TryAggregate(metrics, insights[story.id].agg)
       IN /\ mlog' = Append(mlog, [story |-> story.id, metric |-> "counters"])
          /\ IF out.exc = "none"
               THEN metrics' = out.metrics /\ mpc' = "row"
             ELSE IF AggCatches(out.exc)
               THEN metrics' = AggDefaults(out.metrics) /\ mpc' = "row"
             ELSE metrics' = out.metrics /\ mpc' = "raised"
    /\ UNCHANGED <<insights, todo, si, processed_data, df>>
    /\ UNCHANGED <<fetchVars, runVars, batchVars, secretVars>>

\* row_data is built and appended, and the for loop moves to the next story;
\* or the rates raise TypeError, which leaves process_stories: no row of the
\* call is returned
RowStep ==
    /\ mpc = "row"
    /\ IF RowRaises(RowCounters(todo[si], metrics))
         THEN /\ mpc' = "raised"
              /\ UNCHANGED <<processed_data, metrics, si>>
         ELSE /\ processed_data' = Append(processed_data, BuildRow(todo[si], metrics))
              /\ metrics' = EmptyDict
              /\ IF si < Len(todo)
                   THEN si' = si + 1 /\ mpc' = "nav"
                   ELSE si' = si /\ mpc' = "frame"
    /\ UNCHANGED <<insights, todo, df, mlog>>
    /\ UNCHANGED <<fetchVars, runVars, batchVars, secretVars>>

\* pl.DataFrame(processed_data), or the empty frame; return df.  The frame
\* holds the rows in their order.  polars is not pinned to a version: on a
\* column of ints and strs the constructor raises in some versions and builds
\* a column of strs in others
FrameStep ==
    /\ mpc = "frame"
    /\ \/ df' = processed_data /\ mpc' = "done"
       \/ MixedColumn(processed_data) /\ mpc' = "raised" /\ df' = df
    /\ UNCHANGED <<insights, todo, si, metrics, processed_data, mlog>>
    /\ UNCHANGED <<fetchVars, runVars, batchVars, secretVars>>

\* for story in stories: the position process_stories starts at
ProcessEntry(list) == IF Len(list) = 0 THEN "frame" ELSE "nav"

----------------------------------------------------------------------------
(* The listings fetch_stories is run against: k pages chained by their     *)
(* next URLs, the last page either ending the listing (tail = 0) or        *)
(* pointing back to a page j (tail = j; an upstream that always supplies a *)
(* next URL).  Story ids are the positions in the listing.                 *)

StampSeqs == UNION { [1..n -> StoryTimes] : n \in 0..MaxStories }

MkStory(stamps, i) == [id |-> i, timestamp |-> stamps[i]]

\* the stories at positions a+1..b of the listing
MkPage(stamps, a, b) == [j \in 1..(b - a) |-> MkStory(stamps, a + j)]

\* cuts: a non-decreasing sequence of k-1 cut positions in 0..Len(stamps)
MkPages(stamps, cuts) ==
    [p \in 1..(Len(cuts) + 1) |->
        MkPage(stamps,
               IF p = 1 THEN 0 ELSE cuts[p - 1],
               IF p = Len(cuts) + 1 THEN Len(stamps) ELSE cuts[p])]

CutSeqs(n, k) ==
    { c \in [1..(k - 1) -> 0..n] : \A i \in 1..(k - 2) : c[i] <= c[i + 1] }

Listings ==
    { [pages |-> MkPages(x[1], x[2]), tail |-> x[3]] :
        x \in { y \in StampSeqs
                        \X (UNION { [1..(k - 1) -> 0..MaxStories] : k \in 1..MaxPages })
                        \X (0..MaxPages) :
                  /\ y[2] \in CutSeqs(Len(y[1]), Len(y[2]) + 1)
                  /\ y[3] <= Len(y[2]) + 1 } }

----------------------------------------------------------------------------
(* The insights process_stories is run against *)

NavFail == [ok |-> FALSE, data |-> <<>>]
NavOk(values) == [ok |-> TRUE, data |-> << [name |-> "navigation", values |-> values] >>]

Scalar(n) == [kind |-> "scalar", n |-> n, m |-> EmptyDict]
Mapping(m) == [kind |-> "map", n |-> 0, m |-> m]
BadMapping == [kind |-> "bad", n |-> 0, m |-> EmptyDict]

Mappings == UNION { [S -> 1..MaxCount] : S \in SUBSET ActionTypes }

\* the value entries: a scalar (a count, None or a str), a mapping of counts,
\* an entry whose parse raises
NavValueEntries ==
    { Scalar(n) : n \in (0..MaxCount) \cup {None, Text} } \cup { Mapping(m) : m \in Mappings } \cup { BadMapping }

\* an insights response for a lifetime metric holds one value entry, or none
NavValueLists == { <<>> } \cup { <<v>> : v \in NavValueEntries }

\* the request failed; no metric; the navigation metric with each value list;
\* a str followed by a mapping of a count, or of a str; a metric of another name
NavResponses ==
    { NavFail, [ok |-> TRUE, data |-> <<>>] }
    \cup { NavOk(vs) : vs \in NavValueLists }
    \cup { NavOk(<< Scalar(Text), Mapping([k \in {"TAP_FORWARD"} |-> v]) >>) : v \in {1, Text} }
    \cup { [ok |-> TRUE, data |-> << [name |-> "reach", values |-> << Scalar(MaxCount) >>] >>] }

\* {"TAP_FORWARD": MaxCount, "TAP_BACK": 1, "SWIPE_FORWARD": 1, "OTHER": 1}
NavExample ==
    NavOk(<< Mapping([k \in {"TAP_FORWARD", "TAP_BACK", "SWIPE_FORWARD", "OTHER"} |->
                        IF k = "TAP_FORWARD" THEN MaxCount ELSE 1]) >>)

NavSmall == { NavFail, NavExample, NavOk(<< BadMapping >>) }

AggFail == [ok |-> FALSE, data |-> <<>>]
AggOk(data) == [ok |-> TRUE, data |-> data]

Value(name, n) == [name |-> name, shape |-> "value", n |-> n]
NoValue(name) == [name |-> name, shape |-> "novalue", n |-> 0]
EmptyValues(name) == [name |-> name, shape |-> "empty", n |-> 0]

\* what "value" holds: a count, None or a str
Values == (0..MaxCount) \cup {None, Text}

\* the entries of one metric name: a value, no value, an empty values list
EntriesOf(nm) == { Value(nm, n) : n \in Values } \cup { NoValue(nm), EmptyValues(nm) }

\* entries of the seven counters, of no name, of the name of a navigation
\* field and of a name no column is made of
AggEntries == UNION { EntriesOf(nm) : nm \in AggNames \cup {"", "taps_exit", "impressions"} }

\* the entries responses of several metrics are built from: a counter, another
\* one, and a metric without a name
AggEntriesFew == UNION { EntriesOf(nm) : nm \in {"views", "follows", ""} }

\* the request failed; one entry of any name; up to MaxAggEntries entries
AggResponses ==
    { AggFail }
    \cup { AggOk(<< e >>) : e \in AggEntries }
    \cup { AggOk(d) : d \in UNION { [1..n -> AggEntriesFew] : n \in 0..MaxAggEntries } }

\* views and replies, the counters the rates are computed from
AggRates ==
    { AggFail }
    \cup { AggOk(<< Value("views", v), Value("replies", r) >>) : v \in Values, r \in Values }
    \cup { AggOk(<< Value("replies", r) >>) : r \in Values }
    \cup { AggOk(<< NoValue("views"), Value("replies", r) >>) : r \in 1..MaxCount }

\* the request failed; views and replies; a response whose second entry cannot
\* be parsed; views null; a str for reach
AggSmall == { AggFail,
              AggOk(<< Value("views", MaxCount), Value("replies", 1) >>),
              AggOk(<< Value("views", 1), EmptyValues("reach"), Value("follows", 1) >>),
              AggOk(<< Value("views", None) >>),
              AggOk(<< Value("reach", Text), Value("views", 1) >>) }

\* the responses one story is processed with; the last one holds counters whose
\* rates lie half-way between two hundredths: 14.375, 30.625, 31.875 and 54.375
\* percent of 160 views
InsightPairs ==
    [nav : NavResponses, agg : AggRates] \cup [nav : NavSmall, agg : AggResponses]
        \cup { [nav |-> NavOk(<< Mapping([k \in {"TAP_EXIT", "TAP_FORWARD", "TAP_BACK"} |->
                                           IF k = "TAP_EXIT" THEN 23
                                           ELSE IF k = "TAP_FORWARD" THEN 49 ELSE 51]) >>),
                 agg |-> AggOk(<< Value("views", 160), Value("replies", 87) >>)] }

InsightPairsSmall == { [nav |-> n, agg |-> a] : n \in NavSmall, a \in AggSmall }

\* n stories posted at the same time: at one of StoryTimes, or while daylight
\* time is in force in US/Pacific, at 2025-08-05T06:00 or 07:00 UTC (23:00 on
\* 2025-08-04 and 00:00 on 2025-08-05)
StoryLists(n) ==
    { [i \in 1..n |-> [id |-> i, timestamp |-> t]] :
        t \in StoryTimes \cup { [utc |-> 487326, off |-> 0], [utc |-> 487327, off |-> 0] } }

----------------------------------------------------------------------------
(* Account identifiers *)

SUPPORTED_ACCOUNTS == {"NPI", "LT", "MD", "RE", "SML"}

\* the identifiers requests name: supported ones in either case, and one that is not
Identifiers == {"NPI", "npi", "LT", "zzz"}

\* str.upper() on the identifiers of the model and of SUPPORTED_ACCOUNTS
Upper(a) == IF a \in {"npi", "NPI"} THEN "NPI"
            ELSE IF a \in {"lt", "LT"} THEN "LT"
            ELSE IF a \in {"md", "MD"} THEN "MD"
            ELSE IF a \in {"re", "RE"} THEN "RE"
            ELSE IF a \in {"sml", "SML"} THEN "SML"
            ELSE IF a \in {"zzz", "ZZZ"} THEN "ZZZ"
            ELSE a

\* str.lower() on the identifiers of the model and of SUPPORTED_ACCOUNTS
Lower(a) == IF a \in {"npi", "NPI"} THEN "npi"
            ELSE IF a \in {"lt", "LT"} THEN "lt"
            ELSE IF a \in {"md", "MD"} THEN "md"
            ELSE IF a \in {"re", "RE"} THEN "re"
            ELSE IF a \in {"sml", "SML"} THEN "sml"
            ELSE IF a \in {"zzz", "ZZZ"} THEN "zzz"
            ELSE a

\* os.getenv("IG_ACCOUNT_NAME", "NPI"), the variable not being set
DefaultAccount == "NPI"

----------------------------------------------------------------------------
(* main() and InstagramStoryMetricsFetcher.run() *)

NoResult == [kind |-> "none", status |-> "", account |-> "", stories_processed |-> 0]

\* the error dict of run()'s except clause (lines 561-568)
ErrorResult(name) ==
    [kind |-> "result", status |-> "error", account |-> name, stories_processed |-> 0]

\* the success dicts of run() (lines 511-517, 536-541, 553-559)
SuccessResult(name, n) ==
    [kind |-> "result", status |-> "success", account |-> name, stories_processed |-> n]

\* an exception leaving main()
Raised == [kind |-> "raised", status |-> "", account |-> "", stories_processed |-> 0]

\* nothing returned yet
NotReturned ==
    [kind |-> "none", code |-> 0, status |-> "", account |-> "", stories_processed |-> 0]

\* fetch_instagram_story_metrics (lines 592-609): the result of main() with 200
\* when its status is success and 500 otherwise; an exception of main() becomes
\* ({"status": "error", "error": str(e)}, 500), which names no account
HttpResponse(result) ==
    IF result.kind = "raised"
      THEN [kind |-> "response", code |-> 500, status |-> "error", account |-> "",
            stories_processed |-> 0]
      ELSE [kind |-> "response", code |-> IF result.status = "success" THEN 200 ELSE 500,
            status |-> result.status, account |-> result.account,
            stories_processed |-> result.stories_processed]

\* test_single_account (run_local.py, lines 33-112): True when the steps went
\* through, False when the scopes were not verified or a step raised
ScriptReturn(result) ==
    [kind |-> IF result.kind = "result" /\ result.status = "success" THEN "True" ELSE "False",
     code |-> 0, status |-> "", account |-> "", stories_processed |-> 0]

\* what the function called hands to its caller when the pipeline ends with
\* result (for main(), result itself, kept in main_ret)
EntryReturn(e, result) ==
    IF e = "http" THEN HttpResponse(result)
    ELSE IF e = "script" THEN ScriptReturn(result)
    ELSE [kind |-> result.kind, code |-> 0, status |-> result.status,
          account |-> result.account, stories_processed |-> result.stories_processed]

\* variant: a failed construction of the fetcher is reported as a result too
ConstructionFailureCaught(name) == ErrorResult(name)

\* InstagramStoryMetricsFetcher(account_name, project_id) is outside run()'s try
\* (line 587): what its failure hands to the caller of main()
ConstructionFailure(name) == Raised

\* n in decimal, zero-padded to two digits
Pad2(n) == IF n < 10 THEN "0" \o ToString(n) ELSE ToString(n)

\* n in decimal, zero-padded to four digits
Pad4(n) == IF n < 10 THEN "000" \o ToString(n)
           ELSE IF n < 100 THEN "00" \o ToString(n)
           ELSE IF n < 1000 THEN "0" \o ToString(n)
           ELSE ToString(n)

\* f"{date}" of a datetime.date: YYYY-MM-DD
IsoDate(d) ==
    LET c == CivilDate(d)
    IN Pad4(c.year) \o "-" \o Pad2(c.month) \o "-" \o Pad2(c.day)

\* variant: the data file is not partitioned by account
ParquetKeyShared(name, date) ==
    "Instagram/insights/stories/" \o IsoDate(date)
        \o "/instagram_story_metrics_" \o IsoDate(date) \o ".parquet"

\* the object paths of upload_to_gcs (lines 435-436)
ParquetKey(name, date) ==
    "Instagram/" \o name \o "/insights/stories/" \o IsoDate(date)
        \o "/instagram_story_metrics_" \o IsoDate(date) \o ".parquet"

SchemaKey(name, date) ==
    "Instagram/" \o name \o "/schemas/stories/" \o IsoDate(date)
        \o "/instagram_story_metrics_" \o IsoDate(date) \o "_schema.json"

\* variant: the start of the window is not moved back
EligibleRangeSameDay(t) == [start_date |-> t \div 24, end_date |-> t \div 24]

\* get_eligible_story_date_range: now is the Pacific wall clock, in hours
EligibleRange(t) == [start_date |-> (t - 24) \div 24, end_date |-> t \div 24]

\* the clock readings of the runs of the model (Pacific wall-clock hours)
Nows == {47, 49}

\* datetime.now().date() (lines 508, 546): the date of the host's local clock,
\* the Pacific wall clock being t.  The host's clock is o hours ahead: 0 on a
\* host on Pacific time, 7 or 8 on a host on UTC.
HostDates(t) == { (t + o) \div 24 : o \in {0, 7, 8} }

\* the listings single-account runs are checked against: no story; one in-window
\* story; a too-recent story and an in-window one, then an in-window and an older
\* one on a second page; an older story only
RunStamps == { <<>>,
               << [utc |-> 27, off |-> 0] >>,
               << [utc |-> 75, off |-> 0], [utc |-> 27, off |-> 0],
                  [utc |-> 27, off |-> 0], [utc |-> 0 - 20, off |-> 0] >> }

RunListings ==
    { [pages |-> MkPages(s, <<>>), tail |-> 0] : s \in RunStamps }
    \cup { [pages |-> MkPages(s, << Len(s) \div 2 >>), tail |-> 0] : s \in RunStamps }

\* the local files of the model: not given; unreadable or of an invalid format;
\* a list of stories
LocalFiles ==
    { [given |-> FALSE, valid |-> FALSE, stories |-> <<>>],
      [given |-> TRUE, valid |-> FALSE, stories |-> <<>>],
      [given |-> TRUE, valid |-> TRUE, stories |-> <<>>],
      [given |-> TRUE, valid |-> TRUE,
       stories |-> << [id |-> 1, timestamp |-> [utc |-> 27, off |-> 0]] >>] }

InsightsFor(list) == [ { list[i].id : i \in 1..Len(list) } -> InsightPairsSmall ]

RunIdle ==
    /\ account = ""
    /\ local_file = [given |-> FALSE, valid |-> FALSE, stories |-> <<>>]
    /\ now = 0
    /\ pc = "idle"
    /\ account_name = ""
    /\ secret_calls = <<>>
    /\ scope_calls = 0
    /\ writes = <<>>
    /\ failed_step = ""
    /\ main_ret = NoResult
    /\ entry = "main"
    /\ entry_ret = NotReturned
    /\ today = 0

\* run() returns result, which main() returns; the function called returns
\* what it makes of it.  test_single_account does not call main().
Finish(result) ==
    /\ pc' = "end"
    /\ main_ret' = IF entry = "script" THEN main_ret ELSE result
    /\ entry_ret' = EntryReturn(entry, result)

\* the except clause of run(): step failed
Fail(step) ==
    /\ failed_step' = step
    /\ Finish(ErrorResult(account_name))

\* InstagramStoryMetricsFetcher.__init__ up to _init_credentials (lines 78-94):
\* self.account_name = account_name.upper(), then SecretsManager(project_id),
\* whose secretmanager.SecretManagerServiceClient() (line 52) can raise
Construct(name) ==
    /\ account_name' = Upper(name)
    /\ \/ pc' = "token" /\ UNCHANGED <<failed_step, main_ret, entry_ret>>
       \/ /\ failed_step' = "secrets_client"
          /\ Finish(ConstructionFailure(Upper(name)))
    /\ UNCHANGED <<entry, today, account, local_file, now, secret_calls, scope_calls, writes>>
    /\ UNCHANGED <<fetchVars, metricVars, batchVars, secretVars>>

\* main(): the account name, and the construction of the fetcher
MainEntry ==
    /\ pc = "main"
    /\ Construct(IF account = "" THEN DefaultAccount ELSE account)

\* fetch_instagram_story_metrics(request): account and local_file are read from
\* the JSON body (None when missing) and main(account_name, local_file) is called
HttpEntry ==
    /\ pc = "http"
    /\ Construct(IF account = "" THEN DefaultAccount ELSE account)

\* test_single_account(account_name): the fetcher is built for account_name
ScriptEntry ==
    /\ pc = "script"
    /\ Construct(account)

\* _init_credentials: get_secret("fb_access_token")
SecretToken ==
    /\ pc = "token"
    /\ secret_calls' = Append(secret_calls, [secret |-> "fb_access_token", account |-> ""])
    /\ \/ pc' = "business" /\ UNCHANGED <<failed_step, main_ret, entry_ret>>
       \/ /\ failed_step' = "credentials"
          /\ Finish(ConstructionFailure(account_name))
    /\ UNCHANGED <<entry, today, account, local_file, now, account_name, scope_calls, writes>>
    /\ UNCHANGED <<fetchVars, metricVars, batchVars, secretVars>>

\* _init_credentials: get_secret(f"ig_business_id_{self.account_name.lower()}")
SecretBusiness ==
    /\ pc = "business"
    /\ secret_calls' = Append(secret_calls,
                              [secret |-> "ig_business_id", account |-> Lower(account_name)])
    /\ \/ pc' = "client" /\ UNCHANGED <<failed_step, main_ret, entry_ret>>
       \/ /\ failed_step' = "credentials"
          /\ Finish(ConstructionFailure(account_name))
    /\ UNCHANGED <<entry, today, account, local_file, now, account_name, scope_calls, writes>>
    /\ UNCHANGED <<fetchVars, metricVars, batchVars, secretVars>>

\* storage.Client(project=project_id)
StorageClient ==
    /\ pc = "client"
    /\ \/ pc' = "run" /\ UNCHANGED <<failed_step, main_ret, entry_ret>>
       \/ /\ failed_step' = "client"
          /\ Finish(ConstructionFailure(account_name))
    /\ UNCHANGED <<entry, today, account, local_file, now, account_name, secret_calls, scope_calls, writes>>
    /\ UNCHANGED <<fetchVars, metricVars, batchVars, secretVars>>

\* run(local_file) with a local file: fetch_from_local_file up to process_stories
LocalRead ==
    /\ pc = "run"
    /\ local_file.given
    /\ IF local_file.valid
         THEN /\ todo' = local_file.stories
              /\ insights' \in InsightsFor(local_file.stories)
              /\ mpc' = ProcessEntry(local_file.stories)
              /\ pc' = "process"
              /\ UNCHANGED <<failed_step, main_ret, entry_ret>>
         ELSE /\ Fail("local_file")
              /\ UNCHANGED <<todo, insights, mpc>>
    /\ UNCHANGED <<si, metrics, processed_data, df, mlog>>
    /\ UNCHANGED <<entry, today, account, local_file, now, account_name, secret_calls, scope_calls, writes>>
    /\ UNCHANGED <<fetchVars, batchVars, secretVars>>

\* variant: a failed verification is logged and the run goes on
VerifyScopesLogged ==
    /\ pc = "run"
    /\ ~local_file.given
    /\ scope_calls' = scope_calls + 1
    /\ \E verified \in BOOLEAN :
          /\ pc' = "window"
          /\ failed_step' = IF verified THEN failed_step ELSE "scopes"
          /\ UNCHANGED <<main_ret, entry_ret>>
    /\ UNCHANGED <<entry, today, account, local_file, now, account_name, secret_calls, writes>>
    /\ UNCHANGED <<fetchVars, metricVars, batchVars, secretVars>>

\* verify_token_scopes: the scopes are there, some are missing, or the request failed
VerifyScopes ==
    /\ pc = "run"
    /\ ~local_file.given
    /\ scope_calls' = scope_calls + 1
    /\ \E verified \in BOOLEAN :
          IF verified
            THEN pc' = "window" /\ UNCHANGED <<failed_step, main_ret, entry_ret>>
            ELSE Fail("scopes")
    /\ UNCHANGED <<entry, today, account, local_file, now, account_name, secret_calls, writes>>
    /\ UNCHANGED <<fetchVars, metricVars, batchVars, secretVars>>

\* get_eligible_story_date_range, and fetch_stories up to its loop
FetchEntry ==
    /\ pc = "window"
    /\ since_date' = EligibleRange(now).start_date
    /\ until_date' = EligibleRange(now).end_date
    /\ upstream' \in RunListings
    /\ endpoint' = 1
    /\ page_count' = 0
    /\ stories' = <<>>
    /\ fs' = "loop"
    /\ pc' = "fetch"
    /\ UNCHANGED <<fetch_ret, requests>>
    /\ UNCHANGED <<entry, today, account, local_file, now, account_name, secret_calls, scope_calls,
                   writes, failed_step, main_ret, entry_ret>>
    /\ UNCHANGED <<metricVars, batchVars, secretVars>>

\* fetch_stories raised: run()'s except clause
FetchRaised ==
    /\ pc = "fetch"
    /\ fs = "raised"
    /\ Fail("fetch")
    /\ UNCHANGED <<entry, today, account, local_file, now, account_name, secret_calls, scope_calls, writes>>
    /\ UNCHANGED <<fetchVars, metricVars, batchVars, secretVars>>

\* if not stories: the zero-count success
NoStories ==
    /\ pc = "fetch"
    /\ fs = "returned"
    /\ Len(fetch_ret.stories) = 0
    /\ Finish(SuccessResult(account_name, 0))
    /\ UNCHANGED <<entry, today, account, local_file, now, account_name, secret_calls, scope_calls,
                   writes, failed_step>>
    /\ UNCHANGED <<fetchVars, metricVars, batchVars, secretVars>>

\* df = self.process_stories(stories)
ProcessFetched ==
    /\ pc = "fetch"
    /\ fs = "returned"
    /\ Len(fetch_ret.stories) > 0
    /\ todo' = fetch_ret.stories
    /\ insights' \in InsightsFor(fetch_ret.stories)
    /\ mpc' = ProcessEntry(fetch_ret.stories)
    /\ pc' = "process"
    /\ UNCHANGED <<si, metrics, processed_data, df, mlog>>
    /\ UNCHANGED <<entry, today, account, local_file, now, account_name, secret_calls, scope_calls,
                   writes, failed_step, main_ret, entry_ret>>
    /\ UNCHANGED <<fetchVars, batchVars, secretVars>>

\* variant: upload_to_gcs without its guard for an empty frame
IsEmptyNever(frame) == FALSE

\* df.is_empty() (line 427)
IsEmpty(frame) == Len(frame) = 0

\* process_stories returned (or raised: run()'s except clause); upload_to_gcs
\* on an empty frame returns without a write, and run() returns success
ProcessReturned ==
    /\ pc = "process"
    /\ mpc \in {"done", "raised"}
    /\ IF mpc = "raised" THEN Fail("process")
       ELSE IF IsEmpty(df)
         THEN Finish(SuccessResult(account_name, Len(df))) /\ UNCHANGED failed_step
       ELSE pc' = "bucket" /\ UNCHANGED <<failed_step, main_ret, entry_ret>>
    /\ UNCHANGED <<entry, today, account, local_file, now, account_name, secret_calls, scope_calls, writes>>
    /\ UNCHANGED <<fetchVars, metricVars, batchVars, secretVars>>

\* upload_to_gcs: get_bucket
GetBucket ==
    /\ pc = "bucket"
    /\ \/ pc' = "parquet" /\ UNCHANGED <<failed_step, main_ret, entry_ret>>
       \/ Fail("upload")
    /\ UNCHANGED <<entry, today, account, local_file, now, account_name, secret_calls, scope_calls, writes>>
    /\ UNCHANGED <<fetchVars, metricVars, batchVars, secretVars>>

\* upload_to_gcs: the Parquet file; today is datetime.now().date()
PutParquet ==
    /\ pc = "parquet"
    /\ \E ok \in BOOLEAN :
          /\ writes' = Append(writes, [key |-> ParquetKey(account_name, today), ok |-> ok])
          /\ IF ok THEN pc' = "schema" /\ UNCHANGED <<failed_step, main_ret, entry_ret>>
                   ELSE Fail("upload")
    /\ UNCHANGED <<entry, today, account, local_file, now, account_name, secret_calls, scope_calls>>
    /\ UNCHANGED <<fetchVars, metricVars, batchVars, secretVars>>

\* upload_to_gcs: the schema file; then run() returns success
PutSchema ==
    /\ pc = "schema"
    /\ \E ok \in BOOLEAN :
          /\ writes' = Append(writes, [key |-> SchemaKey(account_name, today), ok |-> ok])
          /\ IF ok THEN Finish(SuccessResult(account_name, Len(df))) /\ UNCHANGED failed_step
                   ELSE Fail("upload")
    /\ UNCHANGED <<entry, today, account, local_file, now, account_name, secret_calls, scope_calls>>
    /\ UNCHANGED <<fetchVars, metricVars, batchVars, secretVars>>

----------------------------------------------------------------------------
(* fetch_instagram_story_metrics_batch (main.py) *)

\* fetch_stories as one call, from the loop state st = [endpoint, page_count,
\* stories, requests]: the requests it makes and what it returns.  The fail-th
\* listing request fails at transport level (0: none does).
RECURSIVE FetchStories(_, _, _, _, _)
FetchStories(up, since, until, fail, st) ==
    IF ~(st.endpoint # 0 /\ st.page_count < max_pages)
      THEN [requests |-> st.requests, ret |-> FetchReturn(st.stories)]
    ELSE LET reqs == Append(st.requests, st.endpoint)
             r == ScanPage(up.pages[st.endpoint], st.stories, since, until)
         IN IF Len(reqs) = fail THEN [requests |-> reqs, ret |-> FetchFailure(st.stories)]
            ELSE IF r.stop THEN [requests |-> reqs, ret |-> FetchReturn(r.stories)]
            ELSE FetchStories(up, since, until, fail,
                              [endpoint |-> NextOf(up, st.endpoint),
                               page_count |-> st.page_count + 1,
                               stories |-> r.stories, requests |-> reqs])

\* the metric requests process_stories makes for a list of stories: per story
\* the navigation request, then the counters request
MetricRequests(list) ==
    [j \in 1..(2 * Len(list)) |->
        [story |-> list[(j + 1) \div 2].id,
         metric |-> IF j % 2 = 1 THEN "navigation" ELSE "counters"]]

\* main(acc, file) as one call, in an environment env = [fault, at, listing]:
\* fault names the step that fails ("none": no step does), at the listing
\* request that fails when the fault is "fetch" and the story at whose row
\* process_stories raises when it is "process" (a Views that is no number),
\* listing is what the stories endpoint serves.  The call's result, and the requests and uploads it makes:
\* the fetcher is built outside run()'s try (line 587), so that a failure of
\* SecretManagerServiceClient(), of a secret lookup or of storage.Client leaves
\* main() as an exception; a failure inside run() gives the error result.
MainRun(acc, file, env) ==
    LET name == Upper(IF acc = "" THEN DefaultAccount ELSE acc)
        started == [result |-> NoResult, secret_calls |-> <<>>, scope_calls |-> 0,
                    requests |-> <<>>, mlog |-> <<>>, writes |-> <<>>]
        token == [started EXCEPT !.secret_calls =
                     << [secret |-> "fb_access_token", account |-> ""] >>]
        business == [token EXCEPT !.secret_calls =
                        Append(@, [secret |-> "ig_business_id", account |-> Lower(name)])]
        scoped == [business EXCEPT !.scope_calls = 1]
        range == EligibleRange(now)
        fetched == FetchStories(env.listing, range.start_date, range.end_date,
                                IF env.fault = "fetch" THEN env.at ELSE 0,
                                [endpoint |-> 1, page_count |-> 0,
                                 stories |-> <<>>, requests |-> <<>>])
        listed == [scoped EXCEPT !.requests = fetched.requests]
        list == IF file.given THEN file.stories ELSE fetched.ret.stories
        processed == [(IF file.given THEN business ELSE listed) EXCEPT
                         !.mlog = MetricRequests(list)]
        stopped == [processed EXCEPT !.mlog = SubSeq(@, 1, 2 * env.at)]
        parquet == [processed EXCEPT !.writes =
                       << [key |-> ParquetKey(name, today), ok |-> env.fault # "parquet"] >>]
        schema == [parquet EXCEPT !.writes =
                      Append(@, [key |-> SchemaKey(name, today), ok |-> env.fault # "schema"])]
        raises(r) == [r EXCEPT !.result = ConstructionFailure(name)]
        fails(r) == [r EXCEPT !.result = ErrorResult(name)]
        succeeds(r, n) == [r EXCEPT !.result = SuccessResult(name, n)]
    IN IF env.fault = "secrets_client" THEN raises(started)
       ELSE IF env.fault = "token" THEN raises(token)
       ELSE IF env.fault \in {"business", "client"} THEN raises(business)
       ELSE IF file.given /\ ~file.valid THEN fails(business)
       ELSE IF ~file.given /\ env.fault = "scopes" THEN fails(scoped)
       ELSE IF ~file.given /\ fetched.ret.kind = "error" THEN fails(listed)
       ELSE IF ~file.given /\ Len(list) = 0 THEN succeeds(listed, 0)
       ELSE IF env.fault = "process" /\ env.at \in 1..Len(list) THEN fails(stopped)
       ELSE IF IsEmpty(list) THEN succeeds(processed, 0)
       ELSE IF env.fault = "bucket" THEN fails(processed)
       ELSE IF env.fault = "parquet" THEN fails(parquet)
       ELSE IF env.fault = "schema" THEN fails(schema)
       ELSE succeeds(schema, Len(list))

\* a listing without a story
EmptyListing == [pages |-> << <<>> >>, tail |-> 0]

\* a listing of one story, posted on day 0
OneStoryListing == [pages |-> MkPages(<< [utc |-> 3, off |-> 0] >>, <<>>), tail |-> 0]

\* the listings the accounts of a batch have, newest story first.  The clock of
\* a batch reads now = 0 and the window is the days -1..0: no story; one story
\* in the window; two; a too-recent story and one in the window, then on a
\* second page an older one
BatchListings ==
    { EmptyListing,
      OneStoryListing,
      [pages |-> MkPages(<< [utc |-> 3, off |-> 0], [utc |-> 0 - 20, off |-> 0] >>, <<>>),
       tail |-> 0],
      [pages |-> MkPages(<< [utc |-> 27, off |-> 0], [utc |-> 3, off |-> 0],
                            [utc |-> 0 - 44, off |-> 0] >>, << 2 >>),
       tail |-> 0] }

\* what a main() call of a batch can meet: a failure while the fetcher is built
\* or the scopes are verified; a failed listing request, the first one or the
\* second; no failure, on each listing; metrics the first story's row cannot
\* be built of; a failed upload of a one-story frame
Environments ==
    [fault : {"secrets_client", "token", "business", "client", "scopes"},
     at : {0}, listing : {EmptyListing}]
    \cup [fault : {"fetch"}, at : {1}, listing : {EmptyListing}]
    \cup [fault : {"fetch"}, at : {2}, listing : { l \in BatchListings : Len(l.pages) = 2 }]
    \cup [fault : {"none"}, at : {0}, listing : BatchListings]
    \cup [fault : {"process"}, at : {1}, listing : {OneStoryListing}]
    \cup [fault : {"bucket", "parquet", "schema"}, at : {0},
          listing : {OneStoryListing}]

\* what a run of fetch_all_story_accounts can meet: a denied token; missing
\* scopes; no failure, on a listing of no story or of one; a failed upload
AllEnvironments ==
    { e \in Environments :
        \/ e.fault \in {"token", "scopes", "parquet"}
        \/ e.fault = "none" /\ e.listing \in {EmptyListing, OneStoryListing} }

\* the token is denied
DeniedToken == [fault |-> "token", at |-> 0, listing |-> EmptyListing]

\* the requests of one main() call of the batch are added to the logs; the
\* variables of a single-account run taken step by step stay as they are
Logged(run) ==
    /\ secret_calls' = secret_calls \o run.secret_calls
    /\ scope_calls' = scope_calls + run.scope_calls
    /\ requests' = requests \o run.requests
    /\ mlog' = mlog \o run.mlog
    /\ UNCHANGED <<upstream, since_date, until_date, endpoint, page_count, stories,
                   fs, fetch_ret>>
    /\ UNCHANGED <<insights, todo, si, mpc, metrics, processed_data, df>>
    /\ UNCHANGED <<entry, entry_ret, today, account, local_file, now, pc, account_name,
                   failed_step, main_ret>>
    /\ UNCHANGED secretVars

\* the uploads of worker i's run, as entries of bwrites
WorkerWrites(i, run) ==
    [j \in 1..Len(run.writes) |->
        [worker |-> i, key |-> run.writes[j].key, ok |-> run.writes[j].ok]]

\* the number of requests and uploads of a run
RunLength(run) ==
    Len(run.secret_calls) + run.scope_calls + Len(run.requests) + Len(run.mlog)
        + Len(run.writes)

\* worker i makes the k-th request or upload of its run, which is added to its
\* log.  A run makes them in the order of the program: the secret lookups, the
\* scope check, the listing requests, the metric requests, the uploads
WorkerLogs(i, run, k) ==
    LET a == Len(run.secret_calls)
        b == a + run.scope_calls
        c == b + Len(run.requests)
        d == c + Len(run.mlog)
    IN /\ secret_calls' = IF k <= a THEN Append(secret_calls, run.secret_calls[k])
                          ELSE secret_calls
       /\ scope_calls' = IF a < k /\ k <= b THEN scope_calls + 1 ELSE scope_calls
       /\ requests' = IF b < k /\ k <= c THEN Append(requests, run.requests[k - b])
                       ELSE requests
       /\ mlog' = IF c < k /\ k <= d THEN Append(mlog, run.mlog[k - c]) ELSE mlog
       /\ bwrites' = IF d < k THEN Append(bwrites, WorkerWrites(i, run)[k - d]) ELSE bwrites
       /\ UNCHANGED <<upstream, since_date, until_date, endpoint, page_count, stories,
                      fs, fetch_ret>>
       /\ UNCHANGED <<insights, todo, si, mpc, metrics, processed_data, df>>
       /\ UNCHANGED <<entry, entry_ret, today, account, local_file, now, pc, account_name,
                      writes, failed_step, main_ret>>
       /\ UNCHANGED secretVars

\* the entry appended when future.result raises (lines 73-79)
FutureError(acc) ==
    [kind |-> "result", status |-> "error", account |-> acc, stories_processed |-> 0]

\* the account lists of the requests
RequestLists == UNION { [1..n -> Identifiers] : n \in 0..MaxAccounts }

\* variant: the requested accounts are run without validation
ValidAccountsUnfiltered(accounts) == accounts

\* [acc for acc in accounts if acc.upper() in SUPPORTED_ACCOUNTS]
RECURSIVE ValidAccounts(_)
ValidAccounts(accounts) ==
    IF Len(accounts) = 0 THEN <<>>
    ELSE IF Upper(Head(accounts)) \in SUPPORTED_ACCOUNTS
      THEN <<Head(accounts)>> \o ValidAccounts(Tail(accounts))
      ELSE ValidAccounts(Tail(accounts))

\* sum(r.get("stories_processed", 0) for r in results)
RECURSIVE TotalStories(_)
TotalStories(rs) ==
    IF Len(rs) = 0 THEN 0 ELSE Head(rs).stories_processed + TotalStories(Tail(rs))

\* [r["account"] for r in results if r["status"] == "error"]
RECURSIVE FailedAccounts(_)
FailedAccounts(rs) ==
    IF Len(rs) = 0 THEN <<>>
    ELSE IF Head(rs).status = "error"
      THEN <<Head(rs).account>> \o FailedAccounts(Tail(rs))
      ELSE FailedAccounts(Tail(rs))

NoResponse ==
    [code |-> 0, status |-> "", accounts_processed |-> 0, total_stories |-> 0,
     results |-> <<>>, failed_accounts |-> <<>>, has_failed_accounts |-> FALSE,
     has_results |-> FALSE]

\* the response of lines 48-52
NoValidAccounts == [NoResponse EXCEPT !.code = 400, !.status = "error"]

\* the response of the outer except clause (lines 98-103)
BatchError == [NoResponse EXCEPT !.code = 500, !.status = "error"]

\* lines 81-96
Aggregated(valid, rs) ==
    LET failed == FailedAccounts(rs) IN
    [code |-> IF Len(failed) = 0 THEN 200 ELSE 207,
     status |-> IF Len(failed) = 0 THEN "success" ELSE "partial_success",
     accounts_processed |-> Len(valid),
     total_stories |-> TotalStories(rs),
     results |-> rs,
     failed_accounts |-> failed,
     has_failed_accounts |-> Len(failed) > 0,
     has_results |-> TRUE]

BatchIdle ==
    /\ bkeys = {}
    /\ breq = <<>>
    /\ bpc = "idle"
    /\ valid_accounts = <<>>
    /\ futures = <<>>
    /\ results = <<>>
    /\ response = NoResponse
    /\ bwrites = <<>>
    /\ world = <<>>

\* lines 32-52: the request is parsed and its accounts validated; lines 62-66:
\* with several valid accounts main(account, local_file) is submitted to the
\* pool for each.  A future holds the course its call takes in the environment
\* it meets (run) and the number of requests and uploads made so far (at)
BatchStart ==
    /\ bpc = "start"
    /\ LET accounts == IF Len(breq) = 0 THEN <<DefaultAccount>> ELSE breq
           valid == ValidAccounts(accounts)
       IN /\ valid_accounts' = valid
          /\ IF Len(valid) = 0
               THEN bpc' = "end" /\ response' = NoValidAccounts /\ futures' = futures
             ELSE IF Len(valid) = 1
               THEN bpc' = "single" /\ UNCHANGED <<response, futures>>
             ELSE /\ bpc' = "pool"
                  /\ futures' = [i \in 1..Len(valid) |->
                                   [state |-> "running", outcome |-> NoResult,
                                    run |-> MainRun(valid[i], local_file, world[i]), at |-> 0]]
                  /\ UNCHANGED response
    /\ UNCHANGED <<bkeys, breq, results, world>>
    /\ UNCHANGED <<bwrites, fetchVars, metricVars, runVars, secretVars>>

\* lines 56-59: one valid account, main(account, local_file) is called inline
\* and runs to its end; its exception reaches the outer except clause
SingleCall ==
    /\ bpc = "single"
    /\ \E run \in { MainRun(valid_accounts[1], local_file, world[1]) } :
          /\ Logged(run)
          /\ writes' = writes \o run.writes
          /\ IF run.result.kind = "raised"
               THEN bpc' = "end" /\ response' = BatchError /\ UNCHANGED results
               ELSE bpc' = "aggregate" /\ results' = <<run.result>> /\ UNCHANGED response
    /\ UNCHANGED <<bkeys, breq, valid_accounts, futures, bwrites, world>>

\* a worker of the pool makes the next request or upload of its main() call; the
\* workers run at the same time, so that their requests interleave
WorkerStep(i) ==
    /\ bpc = "pool"
    /\ i \in 1..Len(futures)
    /\ futures[i].state = "running"
    /\ futures[i].at < RunLength(futures[i].run)
    /\ WorkerLogs(i, futures[i].run, futures[i].at + 1)
    /\ futures' = [futures EXCEPT ![i].at = @ + 1]
    /\ UNCHANGED <<bkeys, breq, bpc, valid_accounts, results, response, world>>

\* a worker's main() call returns or raises after its last request: the future
\* is done
WorkerDone(i) ==
    /\ bpc = "pool"
    /\ i \in 1..Len(futures)
    /\ futures[i].state = "running"
    /\ futures[i].at = RunLength(futures[i].run)
    /\ futures' = [futures EXCEPT ![i].state = "done", ![i].outcome = futures[i].run.result]
    /\ UNCHANGED <<bkeys, breq, bpc, valid_accounts, results, response, world>>
    /\ UNCHANGED <<bwrites, fetchVars, metricVars, runVars, secretVars>>

\* for future in as_completed(futures): one iteration (lines 68-79)
Collect(i) ==
    /\ bpc = "pool"
    /\ i \in 1..Len(futures)
    /\ futures[i].state = "done"
    /\ futures' = [futures EXCEPT ![i].state = "collected"]
    /\ results' = Append(results,
                         IF futures[i].outcome.kind = "raised"
                           THEN FutureError(valid_accounts[i])
                           ELSE futures[i].outcome)
    /\ bpc' = IF \A j \in 1..Len(futures) : j = i \/ futures[j].state = "collected"
                THEN "aggregate" ELSE "pool"
    /\ UNCHANGED <<bkeys, breq, valid_accounts, response, world>>
    /\ UNCHANGED <<bwrites, fetchVars, metricVars, runVars, secretVars>>

\* a worker of the pool never returns from main(account, local_file): it
\* blocks, before its first request or in a later one
WorkerHangs(i) ==
    /\ bpc = "pool"
    /\ i \in 1..Len(futures)
    /\ futures[i].state = "running"
    /\ futures' = [futures EXCEPT ![i].state = "stuck"]
    /\ UNCHANGED <<bkeys, breq, bpc, valid_accounts, results, response, world>>
    /\ UNCHANGED <<bwrites, fetchVars, metricVars, runVars, secretVars>>

\* lines 81-96: the results are aggregated into the response
Aggregate ==
    /\ bpc = "aggregate"
    /\ response' = Aggregated(valid_accounts, results)
    /\ bpc' = "end"
    /\ UNCHANGED <<bkeys, breq, valid_accounts, futures, results, world>>
    /\ UNCHANGED <<bwrites, fetchVars, metricVars, runVars, secretVars>>

----------------------------------------------------------------------------
(* fetch_all_story_accounts (main.py).  request.get_json hands out the     *)
(* object the request has parsed and cached; for a request without a JSON  *)
(* body it returns None.                                                   *)

\* SUPPORTED_ACCOUNTS as the list it is (line 23)
SUPPORTED_ACCOUNTS_LIST == <<"NPI", "LT", "MD", "RE", "SML">>

\* the keys a request body carries
BodyKeys == {"accounts", "local_file"}

\* lines 112-115: request_json = request.get_json(silent=True) or {} is the
\* request's own object when that is a non-empty dict, and a new dict otherwise;
\* the accounts are set on request_json, and the batch entry point is called
\* with the request
FetchAll ==
    /\ bpc = "all"
    /\ IF bkeys # {}
         THEN bkeys' = bkeys \cup {"accounts"} /\ breq' = SUPPORTED_ACCOUNTS_LIST
         ELSE UNCHANGED <<bkeys, breq>>
    /\ bpc' = "start"
    /\ UNCHANGED <<valid_accounts, futures, results, response, world>>
    /\ UNCHANGED <<bwrites, fetchVars, metricVars, runVars, secretVars>>

----------------------------------------------------------------------------
(* SecretsManager: the managers built in one process and their get_secret  *)
(* calls, made by any number of threads.  A manager keeps self._cache, a    *)
(* dict from "name:version" to the value (cache); the lru_cache around      *)
(* get_secret is keyed by (self, name, version) and keeps what a call has   *)
(* returned (lru; its 10 entries are never used up by the managers and      *)
(* names of the model).  A call that ended is logged with the number of     *)
(* calls that had ended when it began (after).  No lock is held in          *)
(* get_secret and lru_cache runs the body outside its own lock, so that     *)
(* other threads run between the steps of a call that lru_cache has missed: *)
(* the body begins (stage "body"), looks the key up in self._cache (line    *)
(* 60; "hit" or "missed"), reads the value (line 61; "read") or calls the   *)
(* service (line 65; "waiting"), the service answers ("answered"), the      *)
(* value is stored in self._cache (line 67; "stored"), and the call returns *)
(* through lru_cache.                                                       *)

\* the secret names asked for: the shared token, the business id of one account
SecretNames == {"fb_access_token", "ig_business_id_npi"}

\* what the backing service serves for a name (the latest version can change)
SecretValues == {"v1", "v2"}

SecretsIdle ==
    /\ managers = <<>>
    /\ backend_calls = <<>>
    /\ gets = <<>>
    /\ pending = <<>>

\* SecretsManager.__init__: self._cache = {}
NewManager ==
    /\ Len(managers) < MaxManagers
    /\ managers' = Append(managers, [cache |-> EmptyDict, lru |-> EmptyDict])
    /\ UNCHANGED <<backend_calls, gets, pending>>
    /\ UNCHANGED <<fetchVars, metricVars, runVars, batchVars>>

\* a thread calls manager k's get_secret(name).  lru_cache returns the value it
\* keeps for the key without running the body; otherwise it calls the body
GetSecret(k, name) ==
    /\ k \in 1..Len(managers)
    /\ Len(gets) + Len(pending) < MaxGets
    /\ IF name \in DOMAIN managers[k].lru
         THEN /\ gets' = Append(gets, [manager |-> k, name |-> name, after |-> Len(gets),
                                       kind |-> "value", value |-> managers[k].lru[name]])
              /\ UNCHANGED pending
         ELSE /\ pending' = Append(pending, [manager |-> k, name |-> name, after |-> Len(gets),
                                             call |-> 0, stage |-> "body", value |-> ""])
              /\ UNCHANGED gets
    /\ UNCHANGED <<managers, backend_calls>>
    /\ UNCHANGED <<fetchVars, metricVars, runVars, batchVars>>

\* if cache_key in self._cache (line 60)
CheckCache(j) ==
    /\ j \in 1..Len(pending)
    /\ pending[j].stage = "body"
    /\ pending' = [pending EXCEPT ![j].stage =
                       IF pending[j].name \in DOMAIN managers[pending[j].manager].cache
                       THEN "hit" ELSE "missed"]
    /\ UNCHANGED <<managers, backend_calls, gets>>
    /\ UNCHANGED <<fetchVars, metricVars, runVars, batchVars>>

\* self._cache[cache_key] (line 61): the value the dict holds now
ReadCache(j) ==
    /\ j \in 1..Len(pending)
    /\ pending[j].stage = "hit"
    /\ pending' = [pending EXCEPT ![j].stage = "read",
                                  ![j].value = managers[pending[j].manager].cache[pending[j].name]]
    /\ UNCHANGED <<managers, backend_calls, gets>>
    /\ UNCHANGED <<fetchVars, metricVars, runVars, batchVars>>

\* self.client.access_secret_version(request=...) is called (lines 63-65) and
\* the thread waits for the answer
CallService(j) ==
    /\ j \in 1..Len(pending)
    /\ pending[j].stage = "missed"
    /\ backend_calls' = Append(backend_calls, [name |-> pending[j].name, served |-> "waiting"])
    /\ pending' = [pending EXCEPT ![j].stage = "waiting", ![j].call = Len(backend_calls) + 1]
    /\ UNCHANGED <<managers, gets>>
    /\ UNCHANGED <<fetchVars, metricVars, runVars, batchVars>>

\* pending without its j-th call
Without(j) == [i \in 1..(Len(pending) - 1) |-> IF i < j THEN pending[i] ELSE pending[i + 1]]

\* access_secret_version answers the waiting call j (lines 65-66): the payload
\* is held by the calling thread, or the exception is logged and re-raised
\* (lines 70-72), nothing being stored
AccessSecretVersion(j) ==
    /\ j \in 1..Len(pending)
    /\ pending[j].stage = "waiting"
    /\ \E served \in SecretValues \cup {"denied"} :
          LET c == pending[j] IN
          /\ backend_calls' = [backend_calls EXCEPT ![c.call].served = served]
          /\ IF served = "denied"
               THEN /\ gets' = Append(gets, [manager |-> c.manager, name |-> c.name,
                                             after |-> c.after, kind |-> "raised", value |-> ""])
                    /\ pending' = Without(j)
               ELSE /\ pending' = [pending EXCEPT ![j].stage = "answered", ![j].value = served]
                    /\ UNCHANGED gets
    /\ UNCHANGED managers
    /\ UNCHANGED <<fetchVars, metricVars, runVars, batchVars>>

\* self._cache[cache_key] = secret_value (line 67)
StoreSecret(j) ==
    /\ j \in 1..Len(pending)
    /\ pending[j].stage = "answered"
    /\ managers' = [managers EXCEPT ![pending[j].manager].cache =
                        Put(@, pending[j].name, pending[j].value)]
    /\ pending' = [pending EXCEPT ![j].stage = "stored"]
    /\ UNCHANGED <<backend_calls, gets>>
    /\ UNCHANGED <<fetchVars, metricVars, runVars, batchVars>>

\* return (line 61 or line 69): lru_cache keeps the value unless it has come
\* to hold one for the key during the call, and hands the value of this call
\* to the caller
ReturnSecret(j) ==
    /\ j \in 1..Len(pending)
    /\ pending[j].stage \in {"read", "stored"}
    /\ LET c == pending[j] IN
          /\ managers' = [managers EXCEPT ![c.manager].lru =
                              IF c.name \in DOMAIN @ THEN @ ELSE Put(@, c.name, c.value)]
          /\ gets' = Append(gets, [manager |-> c.manager, name |-> c.name, after |-> c.after,
                                   kind |-> "value", value |-> c.value])
    /\ pending' = Without(j)
    /\ UNCHANGED backend_calls
    /\ UNCHANGED <<fetchVars, metricVars, runVars, batchVars>>

----------------------------------------------------------------------------
(* Idle parts of a specification *)

MetricsIdle ==
    /\ insights = <<>>
    /\ todo = <<>>
    /\ si = 1
    /\ mpc = "idle"
    /\ metrics = EmptyDict
    /\ processed_data = <<>>
    /\ df = <<>>
    /\ mlog = <<>>

FetchIdle ==
    /\ upstream = [pages |-> <<>>, tail |-> 0]
    /\ since_date = 0
    /\ until_date = 0
    /\ endpoint = 0
    /\ page_count = 0
    /\ stories = <<>>
    /\ fs = "idle"
    /\ fetch_ret = NoReturn
    /\ requests = <<>>


----------------------------------------------------------------------------
(* Specifications *)

InitFetch ==
    /\ upstream \in Listings
    /\ \E w \in Windows : since_date = w[1] /\ until_date = w[2]
    /\ endpoint = 1
    /\ page_count = 0
    /\ stories = <<>>
    /\ fs = "loop"
    /\ fetch_ret = NoReturn
    /\ requests = <<>>
    /\ MetricsIdle
    /\ RunIdle
    /\ BatchIdle
    /\ SecretsIdle

NextFetch == FetchPageOk \/ FetchPageFail \/ FetchExit

SpecFetch == InitFetch /\ [][NextFetch]_vars

\* every loop iteration completes: each request is bounded by timeout=30
SpecFetchFair == SpecFetch /\ WF_vars(NextFetch)


InitMetrics ==
    /\ FetchIdle
    /\ RunIdle
    /\ BatchIdle
    /\ SecretsIdle
    /\ \/ /\ todo = << [id |-> 1, timestamp |-> [utc |-> 27, off |-> 0]] >>
          /\ insights \in [1..1 -> InsightPairs]
       \/ \E n \in 0..MaxProcessed :
             /\ todo \in StoryLists(n)
             /\ insights \in [1..n -> InsightPairsSmall]
    /\ si = 1
    /\ mpc = ProcessEntry(todo)
    /\ metrics = EmptyDict
    /\ processed_data = <<>>
    /\ df = <<>>
    /\ mlog = <<>>

NextMetrics == NavStep \/ AggStep \/ RowStep \/ FrameStep

SpecMetrics == InitMetrics /\ [][NextMetrics]_vars


Init ==
    /\ FetchIdle
    /\ MetricsIdle
    /\ BatchIdle
    /\ SecretsIdle
    /\ account \in Identifiers \cup {""}
    /\ local_file \in LocalFiles
    /\ now \in Nows
    /\ today \in HostDates(now)
    /\ entry \in {"main", "http"}
    /\ pc = entry
    /\ account_name = ""
    /\ secret_calls = <<>>
    /\ scope_calls = 0
    /\ writes = <<>>
    /\ failed_step = ""
    /\ main_ret = NoResult
    /\ entry_ret = NotReturned

Next ==
    \/ MainEntry \/ HttpEntry \/ SecretToken \/ SecretBusiness \/ StorageClient
    \/ LocalRead \/ VerifyScopes \/ FetchEntry
    \/ FetchPageOk \/ FetchPageFail \/ FetchExit
    \/ FetchRaised \/ NoStories \/ ProcessFetched
    \/ NavStep \/ AggStep \/ RowStep \/ FrameStep
    \/ ProcessReturned \/ GetBucket \/ PutParquet \/ PutSchema

Spec == Init /\ [][Next]_vars

InitBatch ==
    /\ FetchIdle
    /\ MetricsIdle
    /\ RunIdle
    /\ SecretsIdle
    /\ breq \in RequestLists
    /\ bkeys = IF breq = <<>> THEN {} ELSE {"accounts"}
    /\ bpc = "start"
    /\ valid_accounts = <<>>
    /\ futures = <<>>
    /\ results = <<>>
    /\ response = NoResponse
    /\ bwrites = <<>>
    /\ world \in [1..Len(ValidAccounts(IF Len(breq) = 0 THEN <<DefaultAccount>> ELSE breq))
                    -> Environments]

NextBatch ==
    \/ BatchStart
    \/ SingleCall
    \/ \E i \in 1..MaxAccounts : WorkerStep(i)
    \/ \E i \in 1..MaxAccounts : WorkerDone(i)
    \/ \E i \in 1..MaxAccounts : Collect(i)
    \/ Aggregate

SpecBatch == InitBatch /\ [][NextBatch]_vars

\* batches in which a worker may hang; as_completed (line 68) hands over a
\* future only once it is done
NextBatchStuck ==
    \/ BatchStart
    \/ SingleCall
    \/ \E i \in 1..MaxAccounts : WorkerStep(i)
    \/ \E i \in 1..MaxAccounts : WorkerDone(i)
    \/ \E i \in 1..MaxAccounts : WorkerHangs(i)
    \/ \E i \in 1..MaxAccounts : Collect(i)
    \/ Aggregate

\* every step that can be taken is taken: the orchestrator and the workers that
\* do not hang keep running
SpecBatchStuck == InitBatch /\ [][NextBatchStuck]_vars /\ WF_vars(NextBatchStuck)

\* what the runs of the five accounts meet: the run of the second account any
\* of AllEnvironments, the runs of the others a denied token
AllWorlds ==
    { [i \in 1..Len(SUPPORTED_ACCOUNTS_LIST) |-> IF i = 2 THEN e ELSE DeniedToken] :
        e \in AllEnvironments }

\* requests to fetch_all_story_accounts: no JSON body or an empty object; an
\* object with some of the keys, its accounts list any list of identifiers
InitAll ==
    /\ FetchIdle
    /\ MetricsIdle
    /\ RunIdle
    /\ SecretsIdle
    /\ bkeys \in SUBSET BodyKeys
    /\ breq \in IF "accounts" \in bkeys THEN RequestLists ELSE { <<>> }
    /\ bpc = "all"
    /\ valid_accounts = <<>>
    /\ futures = <<>>
    /\ results = <<>>
    /\ response = NoResponse
    /\ bwrites = <<>>
    /\ world \in AllWorlds

NextAll ==
    \/ FetchAll
    \/ BatchStart
    \/ SingleCall
    \/ \E i \in 1..Len(SUPPORTED_ACCOUNTS_LIST) : WorkerStep(i)
    \/ \E i \in 1..Len(SUPPORTED_ACCOUNTS_LIST) : WorkerDone(i)
    \/ \E i \in 1..Len(SUPPORTED_ACCOUNTS_LIST) : Collect(i)
    \/ Aggregate

SpecAll == InitAll /\ [][NextAll]_vars

InitSecrets ==
    /\ FetchIdle
    /\ MetricsIdle
    /\ RunIdle
    /\ BatchIdle
    /\ SecretsIdle

NextSecrets ==
    \/ NewManager
    \/ \E k \in 1..MaxManagers, name \in SecretNames : GetSecret(k, name)
    \/ \E j \in 1..MaxGets : CheckCache(j)
    \/ \E j \in 1..MaxGets : ReadCache(j)
    \/ \E j \in 1..MaxGets : CallService(j)
    \/ \E j \in 1..MaxGets : AccessSecretVersion(j)
    \/ \E j \in 1..MaxGets : StoreSecret(j)
    \/ \E j \in 1..MaxGets : ReturnSecret(j)

SpecSecrets == InitSecrets /\ [][NextSecrets]_vars

\* get_eligible_story_date_range on its own: now = datetime.now(PST_TIMEZONE),
\* any hour of the days of the model
InitWindow ==
    /\ FetchIdle
    /\ MetricsIdle
    /\ BatchIdle
    /\ SecretsIdle
    /\ account = ""
    /\ local_file = [given |-> FALSE, valid |-> FALSE, stories |-> <<>>]
    /\ now \in 0..(24 * MaxDays - 1)
    /\ today = now \div 24
    /\ entry = "main"
    /\ pc = "window"
    /\ account_name = DefaultAccount
    /\ secret_calls = <<>>
    /\ scope_calls = 0
    /\ writes = <<>>
    /\ failed_step = ""
    /\ main_ret = NoResult
    /\ entry_ret = NotReturned

\* start_date, end_date = self.get_eligible_story_date_range()
GetEligibleRange ==
    /\ pc = "window"
    /\ since_date' = EligibleRange(now).start_date
    /\ until_date' = EligibleRange(now).end_date
    /\ pc' = "ranged"
    /\ UNCHANGED <<upstream, endpoint, page_count, stories, fs, fetch_ret, requests>>
    /\ UNCHANGED <<entry, today, account, local_file, now, account_name, secret_calls, scope_calls,
                   writes, failed_step, main_ret, entry_ret>>
    /\ UNCHANGED <<metricVars, batchVars, secretVars>>

NextWindow == GetEligibleRange

SpecWindow == InitWindow /\ [][NextWindow]_vars

----------------------------------------------------------------------------
(* Runs on a local file, on the days of UploadDays: the fetcher is built,  *)
(* the file processed and the frame uploaded                               *)

\* 2025-08-04 as a day number
ExampleDay == 20304

\* the days of the runs: 1970-01-01 onwards (over two ends of month), and
\* ExampleDay
UploadDays == 0..(MaxUploadDays - 1) \cup {ExampleDay}

InitUpload ==
    /\ FetchIdle
    /\ MetricsIdle
    /\ BatchIdle
    /\ SecretsIdle
    /\ account \in Identifiers \cup {""}
    /\ local_file \in { f \in LocalFiles : f.given }
    /\ now \in { 24 * d + 20 : d \in UploadDays }
    /\ today \in HostDates(now)
    /\ entry = "main"
    /\ pc = "main"
    /\ account_name = ""
    /\ secret_calls = <<>>
    /\ scope_calls = 0
    /\ writes = <<>>
    /\ failed_step = ""
    /\ main_ret = NoResult
    /\ entry_ret = NotReturned

NextUpload ==
    \/ MainEntry \/ SecretToken \/ SecretBusiness \/ StorageClient
    \/ LocalRead
    \/ NavStep \/ AggStep \/ RowStep \/ FrameStep
    \/ ProcessReturned \/ GetBucket \/ PutParquet \/ PutSchema

SpecUpload == InitUpload /\ [][NextUpload]_vars

----------------------------------------------------------------------------
(* test_single_account of run_local.py: the fetcher is built and driven    *)
(* step by step, outside main() and run()                                  *)

InitScript ==
    /\ FetchIdle
    /\ MetricsIdle
    /\ BatchIdle
    /\ SecretsIdle
    /\ account \in Identifiers
    /\ local_file = [given |-> FALSE, valid |-> FALSE, stories |-> <<>>]
    /\ now \in Nows
    /\ today \in HostDates(now)
    /\ entry = "script"
    /\ pc = "script"
    /\ account_name = ""
    /\ secret_calls = <<>>
    /\ scope_calls = 0
    /\ writes = <<>>
    /\ failed_step = ""
    /\ main_ret = NoResult
    /\ entry_ret = NotReturned

NextScript ==
    \/ ScriptEntry \/ SecretToken \/ SecretBusiness \/ StorageClient
    \/ VerifyScopes \/ FetchEntry
    \/ FetchPageOk \/ FetchPageFail \/ FetchExit
    \/ FetchRaised \/ NoStories \/ ProcessFetched
    \/ NavStep \/ AggStep \/ RowStep \/ FrameStep
    \/ ProcessReturned \/ GetBucket \/ PutParquet \/ PutSchema

SpecScript == InitScript /\ [][NextScript]_vars

----------------------------------------------------------------------------
(* Properties of fetch_stories *)

\* the j-th listing request was answered (only the last one can have failed)
Answered(j) == j \in 1..Len(requests) /\ ~(fs = "raised" /\ j = Len(requests))

IsOld(story) == DateOf(story.timestamp) < since_date
IsLate(story) == DateOf(story.timestamp) > until_date
InWindow(story) ==
    since_date <= DateOf(story.timestamp) /\ DateOf(story.timestamp) <= until_date

HasOld(page) == \E i \in 1..Len(page) : IsOld(page[i])

\* a story dated before since_date was on a page the call has received
SawOld == \E j \in 1..Len(requests) : Answered(j) /\ HasOld(upstream.pages[requests[j]])

\* the n-th page of the listing, following the next URLs from the first page
RECURSIVE PageAt(_, _)
PageAt(up, n) == IF n = 1 THEN 1
                 ELSE LET p == PageAt(up, n - 1) IN
                      IF p = 0 THEN 0 ELSE NextOf(up, p)

\* the stories of the first n pages of the listing, in upstream order
RECURSIVE FlatUpTo(_, _)
FlatUpTo(up, n) ==
    IF n = 0 THEN <<>>
    ELSE LET p == PageAt(up, n) IN
         FlatUpTo(up, n - 1) \o (IF p = 0 THEN <<>> ELSE up.pages[p])

\* the stories standing before the first one dated before since_date
BeforeFirstOld(flat) ==
    LET olds == { i \in 1..Len(flat) : IsOld(flat[i]) }
        cut == IF olds = {} THEN Len(flat)
               ELSE (CHOOSE i \in olds : \A k \in olds : i <= k) - 1
    IN SubSeq(flat, 1, cut)

Descending(flat) ==
    \A i \in 1..Len(flat) : \A k \in i..Len(flat) :
        DateOf(flat[i].timestamp) >= DateOf(flat[k].timestamp)

\* the stories of the pages received so far, in the order received
RECURSIVE ReceivedUpTo(_)
ReceivedUpTo(j) ==
    IF j = 0 THEN <<>>
    ELSE ReceivedUpTo(j - 1) \o (IF Answered(j) THEN upstream.pages[requests[j]] ELSE <<>>)

\* C1: once a story dated strictly before since_date has been received, no
\* further listing page is requested in that call, and the call has returned
\* the stories accumulated up to that story.
C1_StopAtOld ==
    /\ [][SawOld => requests' = requests]_vars
    /\ [](SawOld =>
            /\ fs = "returned"
            /\ fetch_ret.kind = "value"
            /\ fetch_ret.stories =
                   SelectSeq(BeforeFirstOld(ReceivedUpTo(Len(requests))), InWindow))

\* an old story was met after a story had been accumulated, with a next page left
C1_Witness ==
    /\ SawOld
    /\ fs = "returned"
    /\ Len(fetch_ret.stories) > 0
    /\ NextOf(upstream, requests[Len(requests)]) # 0
    /\ Len(requests) < 10

\* C2: with no transport failure and since_date <= until_date, the call returns,
\* in upstream order, exactly the in-window stories of the first 10 pages that
\* stand before the first story dated before since_date; a story dated after
\* until_date is neither included nor ends the scan; for a date-descending
\* listing that is every in-window story of the first 10 pages.
C2_ReturnsWindow ==
    (fs = "returned" /\ since_date <= until_date) =>
        LET flat == FlatUpTo(upstream, 10) IN
        /\ fetch_ret.kind = "value"
        /\ fetch_ret.stories = SelectSeq(BeforeFirstOld(flat), InWindow)
        /\ \A i \in 1..Len(fetch_ret.stories) : ~IsLate(fetch_ret.stories[i])
        /\ Descending(flat) => fetch_ret.stories = SelectSeq(flat, InWindow)

\* a too-recent story was passed over and an in-window story after it returned,
\* from the second page of a date-descending listing
C2_Witness ==
    /\ fs = "returned"
    /\ Len(requests) >= 2
    /\ Descending(FlatUpTo(upstream, 10))
    /\ \E i \in 1..Len(upstream.pages[1]) : IsLate(upstream.pages[1][i])
    /\ \E i \in 1..Len(fetch_ret.stories) :
           \E k \in 1..Len(upstream.pages[2]) : fetch_ret.stories[i] = upstream.pages[2][k]

\* C3: a call issues at most 10 story-listing requests and ends, also against
\* an upstream that supplies a next-page URL on every page.
C3_BoundedPages ==
    /\ [](Len(requests) <= 10)
    /\ <>(fs \in {"returned", "raised"})

\* ten pages were requested from a listing that never ends, and the call returned
C3_Witness ==
    /\ fs = "returned"
    /\ Len(requests) = 10
    /\ endpoint # 0
    /\ upstream.tail # 0

\* C4: if a story-listing request fails at transport level the call ends with
\* an error and returns no stories, whatever earlier pages yielded.
C4_FailureDiscards ==
    (\E j \in 1..Len(requests) : ~Answered(j)) =>
        /\ fs = "raised"
        /\ fetch_ret.kind = "error"
        /\ fetch_ret.stories = <<>>

\* a request failed after earlier pages had yielded in-window stories
C4_Witness ==
    /\ fs = "raised"
    /\ Len(requests) >= 2
    /\ Len(stories) > 0


----------------------------------------------------------------------------
(* Properties of fetch_story_metrics and process_stories *)

\* the responses the i-th story of the call was processed with
NavOf(i) == insights[todo[i].id].nav
AggOf(i) == insights[todo[i].id].agg

Abs(x) == IF x < 0 THEN 0 - x ELSE x

\* rate (hundredths of a percent) is numerator / views * 100 rounded to 2
\* decimals: a hundredth nearest to the exact quotient.  Where the quotient lies
\* half-way between two hundredths, round() of the double gives either one
\* (23 / 160 * 100 gives 14.37, 49 / 160 * 100 gives 30.63).
IsRounded(rate, numerator, views) ==
    /\ ~rate.null
    /\ 2 * Abs(rate.x * views - 10000 * numerator) <= views

\* C5: in every row, when Views > 0 the four rates are Taps Exit, Replies,
\* Taps Forward + Swipe Forward and Taps Back over Views, times 100, rounded to
\* two decimals; when Views = 0 all four rates are null.
C5_Rates ==
    \A i \in 1..Len(processed_data) :
        LET c == processed_data[i].counters
            r == processed_data[i].rates
        IN IF c.Views > 0
             THEN /\ IsRounded(r.ExitRate, c.TapsExit, c.Views)
                  /\ IsRounded(r.ReplyRate, c.Replies, c.Views)
                  /\ IsRounded(r.ForwardRate, c.TapsForward + c.SwipeForward, c.Views)
                  /\ IsRounded(r.BackRate, c.TapsBack, c.Views)
             ELSE r.ExitRate.null /\ r.ReplyRate.null /\ r.ForwardRate.null /\ r.BackRate.null

\* one run produced a row with Views = 0 and a row with Views > 1 whose forward
\* rate counts swipes and taps
C5_Witness ==
    /\ mpc = "done"
    /\ \E i \in 1..Len(df) : df[i].counters.Views = 0 /\ df[i].rates.ForwardRate.null
    /\ \E i \in 1..Len(df) :
          /\ df[i].counters.Views > 1
          /\ df[i].counters.SwipeForward > 0
          /\ df[i].counters.TapsForward > 0
          /\ df[i].counters.TapsBack > 0
          /\ ~df[i].rates.BackRate.null

\* the navigation response carries one value entry for the navigation metric
SingleNavValue(resp) ==
    /\ resp.ok
    /\ Len(resp.data) = 1
    /\ resp.data[1].name = "navigation"
    /\ Len(resp.data[1].values) = 1

NavExpected(resp) ==
    LET v == resp.data[1].values[1] IN
    IF v.kind = "map"
      THEN [navigation_total |-> Get(v.m, "TAP_FORWARD", 0) + Get(v.m, "TAP_BACK", 0)
                                 + Get(v.m, "TAP_EXIT", 0) + Get(v.m, "SWIPE_FORWARD", 0)
                                 + Get(v.m, "OTHER", 0),
            taps_forward |-> Get(v.m, "TAP_FORWARD", 0),
            taps_back |-> Get(v.m, "TAP_BACK", 0),
            taps_exit |-> Get(v.m, "TAP_EXIT", 0),
            swipe_forward |-> Get(v.m, "SWIPE_FORWARD", 0)]
      ELSE [navigation_total |-> v.n, taps_forward |-> 0, taps_back |-> 0,
            taps_exit |-> 0, swipe_forward |-> 0]

\* the aggregate response carries no metric named as a navigation field is (an
\* entry of such a name would replace the field, line 296)
NoNavigationName(resp) ==
    \A j \in 1..Len(resp.data) : resp.data[j].name \notin DOMAIN NavDefaults

NavFailed(resp) ==
    \/ ~resp.ok
    \/ \E j \in 1..Len(resp.data) :
          /\ resp.data[j].name = "navigation"
          /\ \E k \in 1..Len(resp.data[j].values) : resp.data[j].values[k].kind = "bad"

\* the aggregate sub-fetch failed: the request, or the parse of its response
AggFailed(resp) == ~resp.ok \/ \E j \in 1..Len(resp.data) : resp.data[j].shape = "empty"

NavZero(c) ==
    /\ c.NavigationTotal = 0
    /\ c.TapsForward = 0
    /\ c.TapsBack = 0
    /\ c.TapsExit = 0
    /\ c.SwipeForward = 0

\* C7 as stated: for every story the aggregate-counters request is issued whether the
\* navigation request succeeded or failed; a navigation failure sets the five
\* navigation fields to 0; no failure of either request raises out of the
\* normalization or keeps a row of the run from being produced.
C7_FailuresIsolated ==
    /\ mpc # "raised"
    /\ \A j \in 1..Len(mlog) :
          mlog[j] = [story |-> todo[(j + 1) \div 2].id,
                     metric |-> IF j % 2 = 1 THEN "navigation" ELSE "counters"]
    /\ mpc = "row" => Len(mlog) = 2 * si
    /\ mpc \in {"frame", "done"} => Len(mlog) = 2 * Len(todo)
    /\ \A i \in 1..Len(processed_data) :
          /\ processed_data[i].counters.story_id = todo[i].id
          /\ NavFailed(NavOf(i)) => NavZero(processed_data[i].counters)
    /\ mpc = "done" => Len(df) = Len(todo)

CounterOf(c, name) ==
    IF name = "views" THEN c.Views
    ELSE IF name = "reach" THEN c.Reach
    ELSE IF name = "replies" THEN c.Replies
    ELSE IF name = "shares" THEN c.Shares
    ELSE IF name = "total_interactions" THEN c.TotalInteractions
    ELSE IF name = "profile_visits" THEN c.ProfileVisits
    ELSE c.Follows

AllCountersNat(c) ==
    /\ \A name \in AggNames : CounterOf(c, name) \in Nat
    /\ c.NavigationTotal \in Nat /\ c.TapsForward \in Nat /\ c.TapsBack \in Nat
    /\ c.TapsExit \in Nat /\ c.SwipeForward \in Nat

\* C8 as stated: every row carries an integer for each of the twelve counters;
\* a counter whose metric the response omits, or whose sub-fetch failed
\* (part-way through parsing included), is 0.
C8_Original ==
    \A i \in 1..Len(processed_data) :
        LET c == processed_data[i].counters IN
        /\ AllCountersNat(c)
        /\ NavFailed(NavOf(i)) => NavZero(c)
        /\ \A name \in AggNames :
              (AggFailed(AggOf(i)) \/ \A j \in 1..Len(AggOf(i).data) : AggOf(i).data[j].name # name)
                 => CounterOf(c, name) = 0

----------------------------------------------------------------------------
(* Properties of main() and run() *)

\* C9 as stated: a failure at any step of an account's pipeline (credentials,
\* scopes, story fetch, normalization, upload) yields an error RunResult naming
\* the account, and main() never raises to its caller.
C9_NeverRaises ==
    /\ main_ret.kind # "raised"
    /\ (pc = "end" /\ failed_step # "") =>
          /\ main_ret.kind = "result"
          /\ main_ret.status = "error"
          /\ main_ret.account = account_name

----------------------------------------------------------------------------
(* Properties of the batch entry point *)

\* how many entries of seq satisfy: account (uppercased) is a
CountOf(seq, a) == Cardinality({ i \in 1..Len(seq) : Upper(seq[i]) = a })
CountResults(rs, a) == Cardinality({ i \in 1..Len(rs) : Upper(rs[i].account) = a })

\* C10 as stated: for a request with at least one valid account and every
\* combination of per-account outcomes, the response holds exactly one RunResult
\* per valid account, accounts_processed is the number of results, and
\* unsupported identifiers contribute no result.
C10_OneResultPerAccount ==
    (bpc = "end" /\ Len(valid_accounts) > 0) =>
        /\ response.has_results
        /\ Len(response.results) = Len(valid_accounts)
        /\ response.accounts_processed = Len(response.results)
        /\ \A a \in SUPPORTED_ACCOUNTS \cup {"ZZZ"} :
              CountResults(response.results, a) = CountOf(valid_accounts, a)

\* the valid accounts whose run failed: main() returned an error result, or raised
FailedRuns == { i \in 1..Len(futures) :
                  futures[i].outcome.kind = "raised" \/ futures[i].outcome.status = "error" }

\* the workers of a multi-account batch have all been collected and aggregated
PoolEnded == bpc = "end" /\ Len(valid_accounts) >= 2 /\ Len(futures) = Len(valid_accounts)

RECURSIVE SumStories(_)
SumStories(S) ==
    IF S = {} THEN 0
    ELSE LET i == CHOOSE j \in S : TRUE
         IN futures[i].outcome.stories_processed + SumStories(S \ {i})

\* how often identifier a occurs in a sequence of identifiers
Occurrences(seq, a) == Cardinality({ j \in 1..Len(seq) : seq[j] = a })

\* C11 as stated: in a multi-account batch where some but not all runs fail,
\* whatever the completion order, the response is partial_success with code 207,
\* failed_accounts holds exactly the uppercased identifiers of the failed
\* accounts and total_stories sums the successful accounts only; when no run
\* fails the response is success with code 200 and has no failed_accounts.
C11_PartialSuccess ==
    PoolEnded =>
        /\ (FailedRuns = {}) =>
              /\ response.status = "success" /\ response.code = 200
              /\ ~response.has_failed_accounts
              /\ response.total_stories = SumStories(1..Len(futures))
        /\ (FailedRuns # {} /\ FailedRuns # 1..Len(futures)) =>
              /\ response.status = "partial_success" /\ response.code = 207
              /\ response.has_failed_accounts
              /\ \A a \in { Upper(x) : x \in Identifiers } \cup Identifiers :
                    Occurrences(response.failed_accounts, a) =
                       Cardinality({ i \in FailedRuns : Upper(valid_accounts[i]) = a })
              /\ response.total_stories = SumStories((1..Len(futures)) \ FailedRuns)

----------------------------------------------------------------------------
\* C12 as stated: the batch status is partial_success exactly when at least one
\* but not all of the valid accounts failed; when every valid account's run
\* fails the status is error.
C12_AllFailedIsError ==
    (bpc = "end" /\ Len(results) > 0 /\ Len(results) = Len(valid_accounts)) =>
        LET failed == { j \in 1..Len(results) : results[j].status = "error" } IN
        /\ response.status = "partial_success" <=> (failed # {} /\ failed # 1..Len(results))
        /\ (failed = 1..Len(results)) => response.status = "error"

----------------------------------------------------------------------------
\* a worker of the batch is stuck
SomeWorkerStuck == \E i \in 1..Len(futures) : futures[i].state = "stuck"

\* C13 as stated: in a multi-account batch, when one account's worker never
\* completes the batch still eventually returns a response, in which that
\* account is recorded as failed and the other accounts' results are reported.
C13_StuckWorkerTimesOut ==
    SomeWorkerStuck ~>
        (/\ bpc = "end"
         /\ response.has_results
         /\ Len(response.results) = Len(valid_accounts)
         /\ \A i \in 1..Len(futures) :
               futures[i].state = "stuck" =>
                  \E j \in 1..Len(response.results) :
                     /\ response.results[j].status = "error"
                     /\ Upper(response.results[j].account) = Upper(valid_accounts[i]))

----------------------------------------------------------------------------
\* the request names accounts, none of them a supported one
NoSupportedAccount ==
    Len(breq) > 0 /\ \A i \in 1..Len(breq) : Upper(breq[i]) \notin SUPPORTED_ACCOUNTS

\* C14: a batch request whose account list holds no supported identifier is
\* answered with an error and code 400, and starts no account pipeline: no
\* worker is submitted, main() is not called, and no credential lookup, upstream
\* request or object-store write takes place.
C14_NoValidAccounts ==
    /\ (NoSupportedAccount /\ bpc # "start") =>
          /\ bpc = "end"
          /\ response = NoValidAccounts
          /\ response.code = 400 /\ response.status = "error"
          /\ futures = <<>> /\ results = <<>>
          /\ secret_calls = <<>> /\ scope_calls = 0 /\ requests = <<>> /\ mlog = <<>>
          /\ writes = <<>> /\ bwrites = <<>>
    /\ (~NoSupportedAccount /\ bpc = "end") => response.code # 400

\* a request naming only the unsupported "zzz", twice, was answered
C14_Witness ==
    /\ breq = <<"zzz", "zzz">>
    /\ bpc = "end"
    /\ response.code = 400
    /\ valid_accounts = <<>>

----------------------------------------------------------------------------
(* Properties of a single-account run *)

\* the run has obtained its story list and the list is empty: fetch_stories
\* returned no story, or the local file was read and holds an empty list
EmptyStoryList ==
    \/ /\ ~local_file.given
       /\ pc \in {"fetch", "end"}
       /\ fs = "returned"
       /\ Len(fetch_ret.stories) = 0
    \/ /\ local_file.given /\ local_file.valid /\ Len(local_file.stories) = 0
       /\ \/ pc \in {"process", "bucket", "parquet", "schema"}
          \/ pc = "end" /\ failed_step \notin {"secrets_client", "credentials", "client"}

\* C15: whenever a run's story list is empty (no in-window story from the API,
\* or a local file with an empty list) the run issues no metrics request and no
\* object-store write, neither data file nor schema file, and returns a success
\* result with stories_processed = 0.
C15_EmptyRunWritesNothing ==
    EmptyStoryList =>
        /\ mlog = <<>>
        /\ writes = <<>>
        /\ pc \notin {"bucket", "parquet", "schema"}
        /\ pc = "end" => main_ret = SuccessResult(account_name, 0)

\* a run over a local file with an empty list went through process_stories and
\* the upload step and returned
C15_Witness ==
    /\ local_file.given /\ local_file.valid /\ Len(local_file.stories) = 0
    /\ pc = "end"
    /\ mpc = "done"
    /\ main_ret.status = "success"

\* a run over the API found stories on two pages, none of them in the window
C15_WitnessApi ==
    /\ ~local_file.given
    /\ pc = "end" /\ fs = "returned"
    /\ Len(requests) > 0
    /\ Len(fetch_ret.stories) = 0
    /\ main_ret.status = "success"

----------------------------------------------------------------------------
\* C16 as stated: the table process_stories returns has the same schema (column
\* names, column order, column dtypes) whether it holds zero rows or N rows, for
\* every combination of metric values, rows whose four rates are all null
\* included.
C16_SameSchema ==
    mpc = "done" => FrameSchema(df) = FrameSchema(<<>>)

----------------------------------------------------------------------------
(* Properties of SecretsManager *)

\* the calls to the backing service that served a value for name
ServedCalls(name) ==
    { i \in 1..Len(backend_calls) :
        backend_calls[i].name = name /\ backend_calls[i].served \in SecretValues }

\* get j began after get i had ended
Later(i, j) == i \in 1..Len(gets) /\ j \in 1..Len(gets) /\ i <= gets[j].after

\* C17 as stated: within one process the backing secret service is invoked at
\* most once per secret name; after a get for a name has succeeded, every later
\* get for the same name returns the same value without calling the backing
\* service again.
C17_OncePerName ==
    \A name \in SecretNames :
        /\ Cardinality(ServedCalls(name)) <= 1
        /\ \A i, j \in 1..Len(gets) :
              (Later(i, j) /\ gets[i].name = name /\ gets[j].name = name
                 /\ gets[i].kind = "value")
                 => (gets[j].kind = "value" /\ gets[j].value = gets[i].value)

\* manager k has served one call at a time: each of its gets began after the
\* ones before it had ended, and none is waiting
OneAtATime(k) ==
    /\ \A i, j \in 1..Len(gets) :
          (i < j /\ gets[i].manager = k /\ gets[j].manager = k) => Later(i, j)
    /\ \A j \in 1..Len(pending) : pending[j].manager # k

\* the same holds of the gets of one manager that serves one call at a time,
\* as the manager of a fetcher does (_init_credentials, lines 104-108)
C17_OncePerManager ==
    \A name \in SecretNames, i, j \in 1..Len(gets) :
        (Later(i, j) /\ gets[i].name = name /\ gets[j].name = name /\ gets[i].kind = "value"
           /\ gets[i].manager = gets[j].manager /\ OneAtATime(gets[i].manager))
           => (gets[j].kind = "value" /\ gets[j].value = gets[i].value)

\* the same of the gets of one manager, whatever the threads calling it
C17_OncePerManagerConcurrent ==
    \A name \in SecretNames, i, j \in 1..Len(gets) :
        (Later(i, j) /\ gets[i].name = name /\ gets[j].name = name /\ gets[i].kind = "value"
           /\ gets[i].manager = gets[j].manager)
           => (gets[j].kind = "value" /\ gets[j].value = gets[i].value)

----------------------------------------------------------------------------
\* C18: when scope verification reports missing scopes, or its request fails,
\* the run returns an error result without raising and issues no story-listing
\* request, no metrics request and no object-store write; in the API flow the
\* story listing is requested only after the scopes were verified, metrics only
\* after fetch_stories returned, and a write happens only after process_stories
\* returned the rows of all fetched stories.
C18_ScopesFirst ==
    /\ failed_step = "scopes" =>
          /\ pc = "end"
          /\ main_ret = ErrorResult(account_name)
          /\ requests = <<>> /\ mlog = <<>> /\ writes = <<>>
    /\ ~local_file.given =>
          /\ (requests # <<>> \/ fs # "idle") => scope_calls = 1
          /\ mlog # <<>> => (fs = "returned" /\ Len(fetch_ret.stories) > 0)
          /\ writes # <<>> =>
                /\ mpc = "done"
                /\ Len(df) = Len(fetch_ret.stories)
                /\ Len(mlog) = 2 * Len(df)

\* the verification failed after the credentials were resolved, and the run
\* ended with an error result
C18_Witness ==
    /\ failed_step = "scopes"
    /\ pc = "end"
    /\ scope_calls = 1
    /\ Len(secret_calls) = 2
    /\ main_ret.status = "error"

\* an API run wrote both files after two listing requests and two rows
C18_WitnessWrite ==
    /\ ~local_file.given
    /\ Len(writes) = 2
    /\ Len(requests) = 2
    /\ Len(df) = 2

----------------------------------------------------------------------------
\* C19 as stated: a single-account request naming an identifier outside the
\* supported set is rejected: no credential lookup, upstream request or
\* object-store write is performed for it.
C19_UnsupportedRejected ==
    (account # "" /\ Upper(account) \notin SUPPORTED_ACCOUNTS) =>
        /\ secret_calls = <<>>
        /\ scope_calls = 0
        /\ requests = <<>> /\ mlog = <<>>
        /\ writes = <<>>
        /\ pc = "end" => main_ret.status = "error"

----------------------------------------------------------------------------
(* Properties of get_eligible_story_date_range *)

\* C20: the window computed at now ends on the Pacific calendar date of now and
\* starts on the Pacific calendar date of now minus 24 hours, so that for every
\* now the start date is exactly one calendar day before the end date.
C20_TrailingDay ==
    pc = "ranged" =>
        /\ until_date = now \div 24
        /\ since_date = (now - 24) \div 24
        /\ since_date = until_date - 1

\* the window of a reading in the last hour of a day, and not of the first day
C20_Witness ==
    /\ pc = "ranged"
    /\ now % 24 = 23
    /\ since_date > 0
    /\ until_date = since_date + 1

----------------------------------------------------------------------------
(* Properties of the output object paths *)

\* the account a run was requested for, uppercased
RequestedAccount == Upper(IF account = "" THEN DefaultAccount ELSE account)

\* the account names paths are compared over
PathAccounts == SUPPORTED_ACCOUNTS \cup { Upper(a) : a \in Identifiers }

\* the paths as the specification writes them, for an ISO date
DataPathOf(acc, iso) ==
    "Instagram/" \o acc \o "/insights/stories/" \o iso
        \o "/instagram_story_metrics_" \o iso \o ".parquet"
SchemaPathOf(acc, iso) ==
    "Instagram/" \o acc \o "/schemas/stories/" \o iso
        \o "/instagram_story_metrics_" \o iso \o "_schema.json"

\* distinct (account, date) pairs have distinct data paths and distinct schema
\* paths, and no data path is a schema path
PathsDistinct ==
    Cardinality({ ParquetKey(a, d) : a \in PathAccounts, d \in UploadDays }
                \cup { SchemaKey(a, d) : a \in PathAccounts, d \in UploadDays })
        = 2 * Cardinality(PathAccounts) * Cardinality(UploadDays)

\* C21: the two object paths are a function of (account, date) alone, the data
\* file Instagram/{ACCOUNT}/insights/stories/{date}/instagram_story_metrics_{date}.parquet
\* and the schema file Instagram/{ACCOUNT}/schemas/stories/{date}/instagram_story_metrics_{date}_schema.json
\* with ACCOUNT the requested identifier uppercased; distinct (account, date)
\* pairs give distinct paths; a non-empty write puts the data file before the
\* schema file.
C21_OutputPaths ==
    /\ PathsDistinct
    /\ DataPathOf("NPI", "2025-08-04") =
          "Instagram/NPI/insights/stories/2025-08-04/instagram_story_metrics_2025-08-04.parquet"
    /\ Len(writes) <= 2
    /\ Len(writes) >= 1 =>
          writes[1].key = DataPathOf(RequestedAccount, IsoDate(today))
    /\ Len(writes) = 2 =>
          /\ writes[1].ok
          /\ writes[2].key = SchemaPathOf(RequestedAccount, IsoDate(today))

\* a run requested for "npi" on 2025-08-04 wrote both files, the data file at
\* the path of the specification's example
C21_Witness ==
    /\ pc = "end"
    /\ account = "npi"
    /\ today = ExampleDay
    /\ Len(writes) = 2
    /\ writes[1].key =
          "Instagram/NPI/insights/stories/2025-08-04/instagram_story_metrics_2025-08-04.parquet"
    /\ writes[2].key =
          "Instagram/NPI/schemas/stories/2025-08-04/instagram_story_metrics_2025-08-04_schema.json"
    /\ writes[2].ok

----------------------------------------------------------------------------
(* Properties of fetch_all_story_accounts *)

\* the accounts the batch runs the pipeline for
AccountsRun == { valid_accounts[i] : i \in 1..Len(valid_accounts) }

\* C22 as stated: fetch_all_story_accounts runs the pipeline for every one of
\* the five supported accounts, whatever the request body is, a request with
\* no JSON body or with another accounts list included.
C22_AllAccountsRun ==
    bpc \notin {"all", "start"} =>
        /\ AccountsRun = SUPPORTED_ACCOUNTS
        /\ Len(valid_accounts) = Cardinality(SUPPORTED_ACCOUNTS)

\* what holds: the five accounts are run when the request carries a non-empty
\* JSON object, whatever its accounts list
C22_AllAccountsRunWithBody ==
    (bpc \notin {"all", "start"} /\ bkeys # {}) =>
        /\ AccountsRun = SUPPORTED_ACCOUNTS
        /\ Len(valid_accounts) = Cardinality(SUPPORTED_ACCOUNTS)

\* a request naming one account only had all five run and collected
C22_WitnessWithBody ==
    /\ bpc = "end"
    /\ bkeys = BodyKeys
    /\ Len(response.results) = 5
    /\ response.accounts_processed = 5

----------------------------------------------------------------------------
(* The date fetch_stories compares and the Story Date of the row *)

\* the Story Date of the row of a story lies in the window
StoryDateInWindow(story) ==
    /\ since_date <= StoryDateOf(story.timestamp)
    /\ StoryDateOf(story.timestamp) <= until_date

\* no story at positions 1..i-1 of flat is older than the window, by the date
\* compared or by its Story Date
NoneOlderBefore(flat, i) ==
    \A k \in 1..(i - 1) :
        /\ ~IsOld(flat[k])
        /\ StoryDateOf(flat[k].timestamp) >= since_date

\* C23 as stated: the date fetch_stories compares with the window is the Story
\* Date of the output row: every story fetch_stories includes has its
\* Pacific-localized Story Date within [since_date, until_date], and every
\* listed story of the first 10 pages whose Pacific-localized date lies in the
\* window, no older story standing before it, is included.
C23_SameDate ==
    (fs = "returned" /\ since_date <= until_date) =>
        LET flat == FlatUpTo(upstream, 10) IN
        /\ \A i \in 1..Len(fetch_ret.stories) : StoryDateInWindow(fetch_ret.stories[i])
        /\ \A i \in 1..Len(flat) :
              (StoryDateInWindow(flat[i]) /\ NoneOlderBefore(flat, i)) =>
                  \E k \in 1..Len(fetch_ret.stories) : fetch_ret.stories[k] = flat[i]

----------------------------------------------------------------------------
(* Workers of one batch and the paths they write *)

\* the workers the batch has started for supported account a
WorkersOf(a) == { i \in 1..Len(futures) : Upper(valid_accounts[i]) = a }

\* the paths worker i has written
PathsOf(i) == { bwrites[j].key : j \in { k \in 1..Len(bwrites) : bwrites[k].worker = i } }

\* workers i and k are both in the middle of their uploads: each has written a
\* path and is still running
BothUploading(i, k) ==
    /\ i # k
    /\ futures[i].state = "running" /\ PathsOf(i) # {}
    /\ futures[k].state = "running" /\ PathsOf(k) # {}

\* the second half of C24 alone: no two workers in the middle of their uploads
\* have written the same path
C24_NoConcurrentSamePath ==
    \A i \in 1..Len(futures), k \in 1..Len(futures) :
        BothUploading(i, k) => PathsOf(i) \cap PathsOf(k) = {}

\* C24 as stated: in any batch request, one whose account list repeats an
\* identifier or names it in different cases included, each supported account's
\* pipeline is run at most once, and no two concurrently running workers write
\* the same object-store path.
C24_OncePerAccount ==
    /\ \A a \in SUPPORTED_ACCOUNTS : Cardinality(WorkersOf(a)) <= 1
    /\ C24_NoConcurrentSamePath

\* what holds: workers of different accounts never write the same path
C24_DistinctAccountsDistinctPaths ==
    \A i \in 1..Len(futures), k \in 1..Len(futures) :
        Upper(valid_accounts[i]) # Upper(valid_accounts[k]) =>
            PathsOf(i) \cap PathsOf(k) = {}

\* two workers of different accounts were in the middle of their uploads
C24_WitnessDistinct ==
    /\ Len(futures) = 2
    /\ BothUploading(1, 2)
    /\ Upper(valid_accounts[1]) # Upper(valid_accounts[2])
    /\ Len(bwrites) = 2

====
